---------------------------- MODULE Spec2Model ----------------------------
(***************************************************************************)
(* Model of the master/slave input mirroring of                            *)
(* Multi-Phone-WiFi-Control-System:                                        *)
(*   src/screen_mirror_controller.py  ScreenMirrorController               *)
(*                                    ScrcpyInputMirror._monitor_with_pynput*)
(*   src/phone_controller.py          PhoneController                      *)
(*                                                                         *)
(* Devices are numbered: 0 is the master, 1..n are the slaves in the       *)
(* order of self.slave_devices.  A geometry is the dict the code uses,     *)
(* [width, height]; a point is <<x, y>>; Python's None for a point is      *)
(* NoPoint.                                                                *)
(***************************************************************************)
EXTENDS Integers, Sequences, FiniteSets, TLC

(***************************************************************************)
(* Bounds of the model.                                                    *)
(***************************************************************************)
MaxSlaves == 2

(***************************************************************************)
(* Program constants.                                                      *)
(***************************************************************************)
DragThreshold == 10
SwipeDistance == 300
SwipeDuration == 300
AspectEpsDen == 100

Master == 0
AllSlaves == 1..MaxSlaves
NoPoint == <<>>

Geom(w, h) == [width |-> w, height |-> h]
ZeroGeom == Geom(0, 0)

(***************************************************************************)
(* Python arithmetic.                                                      *)
(***************************************************************************)
Abs(n) == IF n < 0 THEN -n ELSE n
Min(a, b) == IF a < b THEN a ELSE b
Max(a, b) == IF a > b THEN a ELSE b


(***************************************************************************)
(* The device bridge (adb).  A reply to `wm size` is what the three        *)
(* regular expressions of the resolvers find in its output; a reply to     *)
(* `dumpsys window displays` is whether mDisplayWidth / mDisplayHeight     *)
(* occur in it.  NoSize stands for "the pattern does not match".           *)
(***************************************************************************)
NoSize == Geom(-1, -1)

\* What device d reports: its override size (the input coordinate space)
\* and its physical size.
OverrideGeom(d) ==
    CASE d = 0 -> Geom(1080, 2400)
      [] d = 1 -> Geom(720, 1600)
      [] d = 2 -> Geom(800, 1280)
      [] OTHER -> Geom(1080, 2400)

PhysicalGeom(d) ==
    CASE d = 0 -> Geom(1440, 3200)
      [] d = 1 -> Geom(1080, 2400)
      [] d = 2 -> Geom(1200, 1920)
      [] OTHER -> Geom(1080, 2400)

WmReply(ok, ovr, phys, any) ==
    [ok |-> ok, override |-> ovr, physical |-> phys, anysize |-> any]
DumpReply(ok, w, h) == [ok |-> ok, width |-> w, height |-> h]

\* The outcome of one `adb shell input ...` command: it returns 0, it
\* returns another code, or subprocess.run raises (a timeout, a launch
\* failure).
CmdOutcomes == {"ok", "nonzero", "raises"}

CmdRaises(outcome) == outcome = "raises"

(***************************************************************************)
(* Geometry resolution.                                                    *)
(***************************************************************************)
\* A parse that looks for the physical size first.
ParseWmSizePhysicalFirst(wm) ==
    IF wm.physical # NoSize THEN wm.physical
    ELSE IF wm.override # NoSize THEN wm.override
    ELSE wm.anysize

\* The first of the three patterns that matches the `wm size` output.
ParseWmSize(wm) ==
    IF wm.override # NoSize THEN wm.override
    ELSE IF wm.physical # NoSize THEN wm.physical
    ELSE wm.anysize

\* PhoneController.get_screen_info: [size, raised].  execute_command
\* never raises, so a failed command is success = False.  With both dump
\* fields present, height_match.group(2) raises IndexError (the pattern has
\* one group), outside any try.
GetScreenInfo(r) ==
    IF r.wm.ok /\ ParseWmSize(r.wm) # NoSize
    THEN [size |-> ParseWmSize(r.wm), raised |-> FALSE]
    ELSE IF r.dump.ok /\ r.dump.width >= 0 /\ r.dump.height >= 0
    THEN [size |-> ZeroGeom, raised |-> TRUE]
    ELSE [size |-> ZeroGeom, raised |-> FALSE]

\* ScreenMirrorController.get_master_screen_size: [size, cache, queried].
\* Everything after the cache test runs inside try/except Exception, and
\* check=True turns a failed command into an exception, so every failure,
\* the IndexError of group(2) included, ends in the zero geometry.
GetMasterScreenSize(cache, r) ==
    IF cache.width > 0
    THEN [size |-> cache, cache |-> cache, queried |-> FALSE]
    ELSE IF r.wm.ok /\ ParseWmSize(r.wm) # NoSize
    THEN [size |-> ParseWmSize(r.wm), cache |-> ParseWmSize(r.wm),
          queried |-> TRUE]
    ELSE [size |-> ZeroGeom, cache |-> cache, queried |-> TRUE]

(***************************************************************************)
(* Floating point.  The code computes int(a * (b / c)) and int(a / (b / c))*)
(* in IEEE-754 doubles.  With the operands of this model (below 2^12) the  *)
(* double result is within 2^-40 of the exact quotient, so int() differs   *)
(* from the exact truncation only where the exact quotient is an integer   *)
(* and the double falls just below it.  RoundsLow and DivRoundsLow list    *)
(* the operands <<a, |b|, c>> reachable in this model for which it does    *)
(* (evaluated in IEEE-754 doubles), e.g. int(1080 * (39 / 1080)) = 38.     *)
(* min(scale_x, scale_y) is one of the two quotients, so int(rel * scale)  *)
(* is such a product too.                                                  *)
(***************************************************************************)
RoundsLow ==
    { <<720, 39, 1080>>, <<1080, 39, 1080>>, <<1239, 1280, 1239>>,
      <<2400, 207, 2400>> }

DivRoundsLow == {}

\* int(a * (b / c)), a >= 0, c > 0.
PyScale(a, b, c) ==
    LET n == a * Abs(b)
        q == IF n % c = 0 /\ <<a, Abs(b), c>> \in RoundsLow
             THEN (n \div c) - 1
             ELSE n \div c
    IN  IF b < 0 THEN -q ELSE q

\* int(a / (b / c)), a >= 0, b > 0, c > 0.
PyDivScale(a, b, c) ==
    IF (a * c) % b = 0 /\ <<a, b, c>> \in DivRoundsLow
    THEN ((a * c) \div b) - 1
    ELSE (a * c) \div b

\* max(lo, min(v, hi))
Clamp(v, lo, hi) == Max(lo, Min(v, hi))

(***************************************************************************)
(* The window system (win32gui).  A frame is what the window system        *)
(* reports for the scrcpy window: GetWindowRect (left, top, right, bottom),*)
(* GetClientRect (cw, ch) and ClientToScreen(0, 0) (cx, cy).               *)
(***************************************************************************)
Frame(cw, ch) ==
    [left |-> 100, top |-> 100, right |-> 100 + cw + 16,
     bottom |-> 100 + ch + 39, cw |-> cw, ch |-> ch,
     cx |-> 108, cy |-> 131]

Frames == { Frame(540, 1200), Frame(800, 1200), Frame(540, 1400) }

\* Which window-system call of convert_to_phone_coords raises: none,
\* ClientToScreen, GetClientRect, or GetWindowRect (at line 599 and again
\* at line 703).
W32Modes == {"ok", "c2s_fail", "clientrect_fail", "winrect_fail"}

\* is_point_in_window, with hwnd set and GetWindowRect answering.
IsPointInWindow(f, x, y) ==
    f.left <= x /\ x <= f.right /\ f.top <= y /\ y <= f.bottom

\* A comparison that never sees a mismatch.
AspectNeverMismatch(cw, ch, W, H) == FALSE

\* abs(window_aspect - phone_aspect) > 0.01
AspectMismatch(cw, ch, W, H) ==
    Abs(cw * H - W * ch) * AspectEpsDen > ch * H

\* window_aspect > phone_aspect
WindowWider(cw, ch, W, H) == cw * H > W * ch

\* scale = min(scale_x, scale_y) as the fraction <<numerator, denominator>>
\* of scale_x = W / cw or scale_y = H / ch.
UniformScale(cw, ch, W, H) ==
    IF W * ch < H * cw THEN <<W, cw>> ELSE <<H, ch>>

\* The client area's origin on the screen as lines 611-618 obtain it.
ClientOrigin(f, mode) ==
    IF mode = "c2s_fail"
    THEN <<f.left, f.top + ((f.bottom - f.top) - f.ch)>>
    ELSE <<f.cx, f.cy>>

\* A scaling that ignores the letterbox bars.
ScaleToPhoneNoBars(size, cw, ch, rel_x, rel_y) ==
    <<Clamp(PyScale(rel_x, size.width, cw), 0, size.width - 1),
      Clamp(PyScale(rel_y, size.height, ch), 0, size.height - 1)>>

\* Lines 630-694: the client-relative point (rel_x, rel_y) to a phone point.
ScaleToPhone(size, cw, ch, rel_x, rel_y) ==
    LET W == size.width
        H == size.height
        sc == UniformScale(cw, ch, W, H)
        visible_width == PyScale(ch, W, H)
        letterbox_x == (cw - visible_width) \div 2
        visible_height == PyDivScale(cw, W, H)
        letterbox_y == (ch - visible_height) \div 2
        bounded(px, py) == <<Clamp(px, 0, W - 1), Clamp(py, 0, H - 1)>>
    IN  IF AspectMismatch(cw, ch, W, H)
        THEN IF WindowWider(cw, ch, W, H)
             THEN IF rel_x < letterbox_x \/ rel_x > letterbox_x + visible_width
                  THEN NoPoint
                  ELSE bounded(PyScale(rel_x - letterbox_x, sc[1], sc[2]),
                               PyScale(rel_y, sc[1], sc[2]))
             ELSE IF rel_y < letterbox_y \/ rel_y > letterbox_y + visible_height
                  THEN NoPoint
                  ELSE bounded(PyScale(rel_x, sc[1], sc[2]),
                               PyScale(rel_y - letterbox_y, sc[1], sc[2]))
        ELSE bounded(PyScale(rel_x, W, cw), PyScale(rel_y, H, ch))

\* Lines 699-717: the except branch, scaling by the window rectangle.
FallbackToPhone(size, f, window_x, window_y) ==
    LET win_width == f.right - f.left
        win_height == f.bottom - f.top
        phone_x == PyScale(window_x - f.left, size.width, win_width)
        phone_y == PyScale(window_y - f.top, size.height, win_height)
    IN  IF win_width > 0 /\ win_height > 0
        THEN <<Max(0, Min(phone_x, size.width)),
               Max(0, Min(phone_y, size.height))>>
        ELSE NoPoint

\* convert_to_phone_coords, given the master size get_master_screen_size
\* returned: a phone point or NoPoint for (None, None).
ConvertToPhoneCoords(size, f, mode, window_x, window_y) ==
    IF size.width = 0 \/ size.height = 0 THEN NoPoint
    ELSE IF mode = "winrect_fail" THEN NoPoint
    ELSE IF mode = "clientrect_fail"
    THEN FallbackToPhone(size, f, window_x, window_y)
    ELSE LET o == ClientOrigin(f, mode)
             rel_x == Clamp(window_x - o[1], 0, f.cw)
             rel_y == Clamp(window_y - o[2], 0, f.ch)
         IN  IF f.cw > 0 /\ f.ch > 0
             THEN ScaleToPhone(size, f.cw, f.ch, rel_x, rel_y)
             ELSE NoPoint

(***************************************************************************)
(* ScreenMirrorController: dispatch of one primitive to the master and to  *)
(* the slaves.  A dispatch is computed from the caches, the bridge's       *)
(* replies rep[d] to a geometry resolution of device d and the outcome     *)
(* out[d] of the input command sent to device d.  Its value is the record  *)
(*   master   self.master_screen_size afterwards                           *)
(*   cache    self.slave_screen_sizes afterwards (NoSize: no entry)        *)
(*   sent     the input commands issued, in order                          *)
(*   queried  the devices whose geometry was queried over the bridge       *)
(*   results  the list `results`                                           *)
(*   raised   whether the call ended in an uncaught exception              *)
(***************************************************************************)
Cmd(dev, kind, args) == [dev |-> dev, cmd |-> kind, args |-> args]

\* An entry whose success ignores the return code.
ResultEntryNoCode(dev, outcome) ==
    [device |-> dev, success |-> ~CmdRaises(outcome), error |-> CmdRaises(outcome)]

\* One entry of `results` (lines 222-233, 244-253, 145-154): success is
\* returncode == 0; an exception gives success False and an 'error' key.
ResultEntry(dev, outcome) ==
    [device |-> dev, success |-> (outcome = "ok"), error |-> CmdRaises(outcome)]

\* execute_on_slaves: one command and one result per slave, in order.
ExecuteOnSlaves(slaves, kind, args, out) ==
    [sent |-> [i \in 1..Len(slaves) |-> Cmd(slaves[i], kind, args)],
     results |-> [i \in 1..Len(slaves) |-> ResultEntry(slaves[i], out[slaves[i]])]]

\* A tap point scaled by the inverse ratio.
SlaveTapPointInverse(slave_size, master_size, x, y) ==
    <<Clamp(PyScale(master_size.width, x, slave_size.width),
            0, slave_size.width - 1),
      Clamp(PyScale(master_size.height, y, slave_size.height),
            0, slave_size.height - 1)>>

\* A tap point with the axes crossed: x from ratio_y, y from ratio_x.
SlaveTapPointCrossed(slave_size, master_size, x, y) ==
    <<Clamp(PyScale(slave_size.width, y, master_size.height),
            0, slave_size.width - 1),
      Clamp(PyScale(slave_size.height, x, master_size.width),
            0, slave_size.height - 1)>>

\* A tap point computed by the surface transform, with the master's screen
\* as the source rectangle.
SlaveTapPointAsSurface(slave_size, master_size, x, y) ==
    ScaleToPhone(slave_size, master_size.width, master_size.height, x, y)

\* Lines 205-210: the slave's tap point for the master point (x, y).
SlaveTapPoint(slave_size, master_size, x, y) ==
    <<Clamp(PyScale(slave_size.width, x, master_size.width),
            0, slave_size.width - 1),
      Clamp(PyScale(slave_size.height, y, master_size.height),
            0, slave_size.height - 1)>>

\* Lines 318-321: a slave's swipe end point for the master point (x, y).
SlaveSwipePoint(slave_size, master_size, x, y) ==
    <<PyScale(slave_size.width, x, master_size.width),
      PyScale(slave_size.height, y, master_size.height)>>

\* A lookup that resolves the slave's size whether it is cached or not.
SlaveSizeUncached(cache, s, r) ==
    LET info == GetScreenInfo(r)
    IN  [size |-> info.size, raised |-> info.raised, queried |-> TRUE,
         cache |-> IF ~info.raised /\ info.size.width > 0
                   THEN [cache EXCEPT ![s] = info.size]
                   ELSE cache]

\* Lines 196-201 and 309-314: the slave's size from the cache, or resolved
\* and cached when its width is positive.
SlaveSize(cache, s, r) ==
    IF cache[s] # NoSize
    THEN [size |-> cache[s], raised |-> FALSE, queried |-> FALSE,
          cache |-> cache]
    ELSE LET info == GetScreenInfo(r)
         IN  [size |-> info.size, raised |-> info.raised, queried |-> TRUE,
              cache |-> IF ~info.raised /\ info.size.width > 0
                        THEN [cache EXCEPT ![s] = info.size]
                        ELSE cache]

\* A test of the slave's width alone.
SlaveResolvedByWidth(slave_size) == slave_size.width > 0

\* Line 203 / 316: whether the slave gets proportional coordinates.
SlaveResolved(slave_size) == slave_size.width > 0 /\ slave_size.height > 0

\* Lines 194-253: the loop over the slaves from index i on.
RECURSIVE TapSlaves(_, _, _, _, _, _, _, _)
TapSlaves(slaves, i, acc, master_size, x, y, rep, out) ==
    IF i > Len(slaves) THEN acc
    ELSE LET s == slaves[i]
             got == SlaveSize(acc.cache, s, rep[s])
             q == IF got.queried THEN Append(acc.queried, s) ELSE acc.queried
         IN  IF got.raised
             THEN [acc EXCEPT !.queried = q, !.raised = TRUE]
             ELSE LET args == IF SlaveResolved(got.size)
                              THEN SlaveTapPoint(got.size, master_size, x, y)
                              ELSE <<x, y>>
                  IN  TapSlaves(slaves, i + 1,
                          [acc EXCEPT !.cache = got.cache,
                                      !.queried = q,
                                      !.sent = Append(@, Cmd(s, "tap", args)),
                                      !.results = Append(@, ResultEntry(s, out[s]))],
                          master_size, x, y, rep, out)

\* A tap dispatch that gives up when the master's own command raises.
MirrorTapStopsOnMasterFailure(master, cache, slaves, x, y, rep, out) ==
    LET ms == GetMasterScreenSize(master, rep[Master])
        q0 == IF ms.queried THEN <<Master>> ELSE <<>>
        first == <<Cmd(Master, "tap", <<x, y>>)>>
        start == [master |-> ms.cache, cache |-> cache, sent |-> first,
                  queried |-> q0, results |-> <<>>, raised |-> FALSE]
    IN  IF Master \in DOMAIN out /\ out[Master] = "raises"
        THEN start
        ELSE IF ms.size.width = 0 \/ ms.size.height = 0
        THEN LET ex == ExecuteOnSlaves(slaves, "tap", <<x, y>>, out)
             IN  [start EXCEPT !.sent = first \o ex.sent,
                               !.results = ex.results,
                               !.raised = (Len(slaves) = 0)]
        ELSE TapSlaves(slaves, 1, start, ms.size, x, y, rep, out)

\* mirror_tap(x, y).  With the master size unresolved and no slaves,
\* `results` is never bound and line 256 raises NameError.
MirrorTap(master, cache, slaves, x, y, rep, out) ==
    LET ms == GetMasterScreenSize(master, rep[Master])
        q0 == IF ms.queried THEN <<Master>> ELSE <<>>
        first == <<Cmd(Master, "tap", <<x, y>>)>>
    IN  IF ms.size.width = 0 \/ ms.size.height = 0
        THEN LET ex == ExecuteOnSlaves(slaves, "tap", <<x, y>>, out)
             IN  [master |-> ms.cache, cache |-> cache,
                  sent |-> first \o ex.sent, queried |-> q0,
                  results |-> ex.results, raised |-> (Len(slaves) = 0)]
        ELSE TapSlaves(slaves, 1,
                 [master |-> ms.cache, cache |-> cache, sent |-> first,
                  queried |-> q0, results |-> <<>>, raised |-> FALSE],
                 ms.size, x, y, rep, out)

\* Lines 307-343: the loop over the slaves from index i on.
RECURSIVE SwipeSlaves(_, _, _, _, _, _, _)
SwipeSlaves(slaves, i, acc, master_size, p, d, rep) ==
    IF i > Len(slaves) THEN acc
    ELSE LET s == slaves[i]
             got == SlaveSize(acc.cache, s, rep[s])
             q == IF got.queried THEN Append(acc.queried, s) ELSE acc.queried
         IN  IF got.raised
             THEN [acc EXCEPT !.queried = q, !.raised = TRUE]
             ELSE LET a == IF SlaveResolved(got.size)
                           THEN SlaveSwipePoint(got.size, master_size, p[1], p[2])
                           ELSE <<p[1], p[2]>>
                      b == IF SlaveResolved(got.size)
                           THEN SlaveSwipePoint(got.size, master_size, p[3], p[4])
                           ELSE <<p[3], p[4]>>
                  IN  SwipeSlaves(slaves, i + 1,
                          [acc EXCEPT !.cache = got.cache,
                                      !.queried = q,
                                      !.sent = Append(@, Cmd(s, "swipe", a \o b \o <<d>>))],
                          master_size, p, d, rep)

\* mirror_swipe(x1, y1, x2, y2, duration), p = <<x1, y1, x2, y2>>.  It
\* keeps no results.
MirrorSwipe(master, cache, slaves, p, d, rep) ==
    LET ms == GetMasterScreenSize(master, rep[Master])
        q0 == IF ms.queried THEN <<Master>> ELSE <<>>
        first == <<Cmd(Master, "swipe", p \o <<d>>)>>
        out0 == [s \in {slaves[i] : i \in 1..Len(slaves)} |-> "ok"]
    IN  IF ms.size.width = 0 \/ ms.size.height = 0
        THEN [master |-> ms.cache, cache |-> cache,
              sent |-> first \o ExecuteOnSlaves(slaves, "swipe", p \o <<d>>, out0).sent,
              queried |-> q0, results |-> <<>>, raised |-> FALSE]
        ELSE SwipeSlaves(slaves, 1,
                 [master |-> ms.cache, cache |-> cache, sent |-> first,
                  queried |-> q0, results |-> <<>>, raised |-> FALSE],
                 ms.size, p, d, rep)

\* A key dispatch that leaves the master out.
MirrorKeySlavesOnly(master, cache, slaves, keycode) ==
    LET out0 == [s \in {slaves[i] : i \in 1..Len(slaves)} |-> "ok"]
    IN  [master |-> master, cache |-> cache,
         sent |-> ExecuteOnSlaves(slaves, "keyevent", <<keycode>>, out0).sent,
         queried |-> <<>>, results |-> <<>>, raised |-> FALSE]

\* mirror_key(keycode): the master in a try, then execute_on_slaves.
MirrorKey(master, cache, slaves, keycode) ==
    LET out0 == [s \in {slaves[i] : i \in 1..Len(slaves)} |-> "ok"]
    IN  [master |-> master, cache |-> cache,
         sent |-> <<Cmd(Master, "keyevent", <<keycode>>)>>
                  \o ExecuteOnSlaves(slaves, "keyevent", <<keycode>>, out0).sent,
         queried |-> <<>>, results |-> <<>>, raised |-> FALSE]

\* A handler that dispatches nothing.
NoDispatch(master, cache) ==
    [master |-> master, cache |-> cache, sent |-> <<>>, queried |-> <<>>,
     results |-> <<>>, raised |-> FALSE]

(***************************************************************************)
(* The gesture classifier of on_click.                                     *)
(***************************************************************************)
Intent(kind, p) == [kind |-> kind, p |-> p]

\* Line 808: the classifier holds a press.
PointerDown(active, start) == active /\ start # NoPoint

\* A drag test that includes the threshold.
IsDragAtThreshold(s, e) ==
    Abs(e[1] - s[1]) >= DragThreshold \/ Abs(e[2] - s[2]) >= DragThreshold

\* Line 816: the release at e of a press at s is a drag.
IsDrag(s, e) ==
    Abs(e[1] - s[1]) > DragThreshold \/ Abs(e[2] - s[2]) > DragThreshold

\* Lines 816-828: the intent emitted for press point s and release point e.
ReleaseIntent(s, e) ==
    IF IsDrag(s, e) THEN Intent("drag", s \o e) ELSE Intent("tap", e)

(***************************************************************************)
(* The inputs of the model.                                                *)
(***************************************************************************)
\* Pointer positions on the screen during a session.  The first three are
\* on the content of both session frames, 5 and 6 client pixels apart; the
\* fourth is on the content of the 540x1200 frame and in a letterbox bar of
\* the 800x1200 frame; the last is outside the window.
ScreenPoints ==
    { <<248, 200>>, <<253, 200>>, <<254, 205>>, <<128, 200>>, <<50, 50>> }

\* The pointer positions of the scroll wheel.
ScrollPoints == { <<248, 200>>, <<128, 200>>, <<50, 50>> }

\* The frames and the window-system failures of a session.
SessionFrames == { Frame(540, 1200), Frame(800, 1200) }
SessionModes == {"ok", "clientrect_fail"}

Buttons == {"left", "right"}

SlaveSet(slaves) == { slaves[i] : i \in 1..Len(slaves) }

ReplyKinds == 1..8

\* The bridge's answers to one geometry resolution of device d, of kind k:
\* the reply to `wm size` and the reply to the dump that follows when it is
\* needed.  1: override and physical size; 2: physical size only; 3: a
\* size of 0x0; 4: a bare WxH; 5: both commands fail; 6: `wm size` fails and
\* the dump has both fields; 7: no size and a dump without the fields;
\* 8: no size and a dump with the width field only; 9: an override size of
\* 0x0 beside the physical size; 10: a physical size whose height is 0;
\* 11: the physical size only; 12: no size and a dump with both fields;
\* 13: the bridge never answers, which a call with a timeout sees as the
\* failure of both commands.
BridgeReply(d, k) ==
    LET o == OverrideGeom(d)
        p == PhysicalGeom(d)
        wmFail  == WmReply(FALSE, NoSize, NoSize, NoSize)
        wmEmpty == WmReply(TRUE, NoSize, NoSize, NoSize)
        dNone   == DumpReply(TRUE, -1, -1)
        dBoth   == DumpReply(TRUE, o.width, o.height)
    IN  CASE k = 1 -> [wm |-> WmReply(TRUE, o, p, p), dump |-> dNone]
          [] k = 2 -> [wm |-> WmReply(TRUE, NoSize, o, o), dump |-> dNone]
          [] k = 3 -> [wm |-> WmReply(TRUE, NoSize, ZeroGeom, ZeroGeom), dump |-> dBoth]
          [] k = 4 -> [wm |-> WmReply(TRUE, NoSize, NoSize, o), dump |-> dNone]
          [] k = 5 -> [wm |-> wmFail, dump |-> DumpReply(FALSE, -1, -1)]
          [] k = 6 -> [wm |-> wmFail, dump |-> dBoth]
          [] k = 7 -> [wm |-> wmEmpty, dump |-> dNone]
          [] k = 8 -> [wm |-> wmEmpty, dump |-> DumpReply(TRUE, o.width, -1)]
          [] k = 9 -> [wm |-> WmReply(TRUE, ZeroGeom, p, p), dump |-> dNone]
          [] k = 10 -> [wm |-> WmReply(TRUE, NoSize, Geom(o.width, 0),
                                       Geom(o.width, 0)),
                        dump |-> dNone]
          [] k = 11 -> [wm |-> WmReply(TRUE, NoSize, p, p), dump |-> dNone]
          [] k = 13 -> [wm |-> wmFail, dump |-> DumpReply(FALSE, -1, -1)]
          [] OTHER -> [wm |-> wmEmpty, dump |-> dBoth]

\* Every kind of reply, for the resolvers called on their own.
ResolveKinds == 1..12

\* The kinds of reply a resolution gets during a session: the size, a
\* failure of both commands, and the dump with both fields.
SessionKinds == {1, 5, 6}

\* The kind of reply of a bridge that never answers.
SilentKind == 13

\* The timeout of a subprocess.run that is given none, and the timeout of
\* the two commands of get_master_screen_size (lines 377-382, 413-418).
NoTimeout == 0
MasterQueryTimeout == NoTimeout

\* A call with this timeout never returns when the reply is of kind k.
Hangs(timeout, k) == k = SilentKind /\ timeout = NoTimeout

(***************************************************************************)
(* Where a screen point lies on the mirroring surface, from the frame the  *)
(* window system reports and the master's geometry g, in exact arithmetic: *)
(* "outside" the window, on the window "frame" (title bar, borders), in a  *)
(* letterbox "bar", or on the visible "content".                           *)
(***************************************************************************)
SurfaceClass(f, g, x, y) ==
    LET rx == x - f.cx
        ry == y - f.cy
        vw == (f.ch * g.width) \div g.height
        vh == (f.cw * g.height) \div g.width
        lx == (f.cw - vw) \div 2
        ly == (f.ch - vh) \div 2
    IN  IF ~IsPointInWindow(f, x, y) THEN "outside"
        ELSE IF rx < 0 \/ rx > f.cw \/ ry < 0 \/ ry > f.ch THEN "frame"
        ELSE IF Abs(f.cw * g.height - g.width * f.ch) * 100 <= f.ch * g.height
        THEN "content"
        ELSE IF f.cw * g.height > g.width * f.ch
        THEN (IF rx < lx \/ rx > lx + vw THEN "bar" ELSE "content")
        ELSE (IF ry < ly \/ ry > ly + vh THEN "bar" ELSE "content")

(***************************************************************************)
(* State.                                                                  *)
(***************************************************************************)
VARIABLES
    slave_devices,        \* self.slave_devices, fixed at construction
    master_screen_size,   \* ScreenMirrorController.master_screen_size
    slave_screen_sizes,   \* ScreenMirrorController.slave_screen_sizes
    drag_start,           \* _monitor_with_pynput: drag_start
    drag_active,          \* _monitor_with_pynput: drag_active
    hwnd,                 \* _monitor_with_pynput: hwnd is set
    running,              \* ScrcpyInputMirror.running
    monitor,              \* the monitoring thread: "loop" or "done"
    listener,             \* the mouse listener: "alive", "blocked", "stopped"
    frame,                \* the window system: the scrcpy window's frame
    press,                \* the mouse: where the held left press fell
    pool,                 \* PhoneController: devices and the run of execute_all
    threads,              \* the dispatch operations running concurrently
    main,                 \* main(): the device list, the selection, start()
    ev,                   \* the last operation and its inputs
    emitted,              \* the intents the last operation emitted
    sent,                 \* the input commands the last operation issued
    queried,              \* the devices whose geometry it queried
    results,              \* the `results` list of the last mirror_tap
    raised                \* the last operation ended in an exception

vars == <<slave_devices, master_screen_size, slave_screen_sizes, drag_start,
          drag_active, hwnd, running, monitor, listener, frame, press, pool,
          threads, main, ev, emitted, sent, queried, results, raised>>

\* press while the left button is up.
Up == [surface |-> "up", ok |-> TRUE]

\* The record of an operation: its inputs, whether it passed the guards of
\* the callback (handled), whether the point was in the window, the master
\* size the conversion used and the point it returned, the outcomes of the
\* slaves' commands, the classifier and the mouse before it, and the kinds
\* of reply the bridge had for the devices (where the operation is given
\* them).
Event(op, pt, button, pressed, mode) ==
    [op |-> op, pt |-> pt, button |-> button, pressed |-> pressed,
     mode |-> mode, handled |-> FALSE, inwin |-> FALSE, size |-> ZeroGeom,
     mapped |-> NoPoint, out |-> <<>>, was_active |-> drag_active,
     was_start |-> drag_start, press |-> press, rep |-> <<>>]

Quiet(op) == Event(op, NoPoint, "none", FALSE, "ok")

\* The effect of a dispatch record on the controller and on the log.
Apply(d) ==
    /\ master_screen_size' = d.master
    /\ slave_screen_sizes' = d.cache
    /\ sent' = d.sent
    /\ queried' = d.queried
    /\ results' = d.results
    /\ raised' = d.raised

\* What _cache_screen_sizes leaves in slave_screen_sizes for slave s.
CachedAtStart(s, k) ==
    IF GetScreenInfo(BridgeReply(s, k)).size.width > 0
    THEN GetScreenInfo(BridgeReply(s, k)).size
    ELSE NoSize

\* PhoneController with the scanned devices and no execute_all under way.
IdlePool(devices) ==
    [devices |-> devices, phase |-> "idle", op |-> "none", pt |-> NoPoint,
     command |-> <<>>, out |-> <<>>, done |-> {}, collected |-> {}]

\* The number of dispatch operations that run concurrently.
MaxThreads == 2

\* A dispatch operation that is not running.
IdleThread == [pc |-> "idle", i |-> 0, size |-> NoSize, before |-> NoSize]

\* No dispatch operation is under way.
NoThreads == [t \in 1..MaxThreads |-> IdleThread]

\* main() is not part of the run.
NoMain ==
    [pc |-> "none", wifi_devices |-> <<>>, user_input |-> <<>>,
     master |-> -1, slaves |-> <<>>, display |-> "none", attempts |-> 0,
     input_mirror |-> FALSE, returned |-> "none"]

\* The log before any operation.
NoEvent ==
    [op |-> "init", pt |-> NoPoint, button |-> "none",
     pressed |-> FALSE, mode |-> "ok", handled |-> FALSE,
     inwin |-> FALSE, size |-> ZeroGeom, mapped |-> NoPoint,
     out |-> <<>>, was_active |-> FALSE, was_start |-> NoPoint,
     press |-> Up, rep |-> <<>>]

\* The listener, the classifier and the log as the session starts.
Started ==
    /\ drag_start = NoPoint
    /\ drag_active = FALSE
    /\ hwnd = TRUE
    /\ running = TRUE
    /\ monitor = "loop"
    /\ listener = "alive"
    /\ press = Up
    /\ threads = NoThreads
    /\ main = NoMain
    /\ ev = NoEvent
    /\ emitted = <<>>
    /\ sent = <<>>
    /\ queried = <<>>
    /\ results = <<>>
    /\ raised = FALSE

(***************************************************************************)
(* Init: the controller is constructed (_cache_screen_sizes has run without*)
(* raising), the scrcpy window was found and the mouse listener started.   *)
(***************************************************************************)
Init ==
    /\ \E n \in 0..MaxSlaves : slave_devices = [i \in 1..n |-> i]
    /\ \E k \in ReplyKinds :
         master_screen_size =
             GetMasterScreenSize(ZeroGeom, BridgeReply(Master, k)).size
    /\ \E k \in [AllSlaves -> ReplyKinds] :
         /\ \A s \in SlaveSet(slave_devices) :
              ~GetScreenInfo(BridgeReply(s, k[s])).raised
         /\ slave_screen_sizes =
              [s \in AllSlaves |->
                 IF s \in SlaveSet(slave_devices)
                 THEN CachedAtStart(s, k[s]) ELSE NoSize]
    /\ frame \in SessionFrames
    /\ pool = IdlePool(<<Master>> \o slave_devices)
    /\ Started

(***************************************************************************)
(* The environment of one handler: the bridge's replies to the geometry    *)
(* resolutions it makes and the outcomes of the commands it sends.         *)
(***************************************************************************)
Devices == {Master} \cup SlaveSet(slave_devices)

\* The kinds of reply the master's resolution can get (none is asked for
\* when the master size is cached).
MasterKinds ==
    IF master_screen_size.width > 0 THEN {1}
    ELSE SessionKinds \cup {SilentKind}

\* get_master_screen_size asks the bridge, and never returns.
MasterQueryHangs(k) ==
    master_screen_size.width <= 0 /\ Hangs(MasterQueryTimeout, k)

\* The kinds of reply the slaves' resolutions can get, when the handler
\* dispatches to them (none is asked for a cached slave).
SlaveKinds(dispatches) ==
    LET S == SlaveSet(slave_devices)
        U == IF dispatches THEN {s \in S : slave_screen_sizes[s] = NoSize}
             ELSE {}
    IN  { [s \in S |-> IF s \in U THEN k[s] ELSE 1] : k \in [U -> SessionKinds] }

Replies(km, ks) ==
    [d \in Devices |-> BridgeReply(d, IF d = Master THEN km ELSE ks[d])]

\* The outcomes of the slaves' commands, where the handler keeps them.
SlaveOutcomes(kept) ==
    IF kept THEN [SlaveSet(slave_devices) -> CmdOutcomes]
    ELSE {[s \in SlaveSet(slave_devices) |-> "ok"]}

(***************************************************************************)
(* The callbacks of the mouse listener.  pynput stops the listener when a  *)
(* callback returns False or raises.                                       *)
(***************************************************************************)
\* A callback that returns before looking at the point: the stop signal is
\* set (return False, the listener stops) or hwnd is not set (return True).
Unhandled(op, button, pressed) ==
    /\ ~running \/ ~hwnd
    /\ listener' = IF ~running THEN "stopped" ELSE listener
    /\ ev' = Event(op, NoPoint, button, pressed, "ok")
    /\ emitted' = <<>>
    /\ Apply(NoDispatch(master_screen_size, slave_screen_sizes))
    /\ UNCHANGED <<drag_start, drag_active>>

\* A callback whose conversion asks for the master's size and gets no
\* answer (lines 593, 377-382): it never returns, and the listener thread
\* stays in it.
Blocked(op, pt, button, pressed, mode) ==
    /\ ev' = [Event(op, pt, button, pressed, mode) EXCEPT !.inwin = TRUE]
    /\ emitted' = <<>>
    /\ Apply([NoDispatch(master_screen_size, slave_screen_sizes)
                EXCEPT !.queried = <<Master>>])
    /\ listener' = "blocked"
    /\ UNCHANGED <<drag_start, drag_active>>

\* on_click, left button pressed (lines 798-805).
LeftPress(x, y, mode) ==
    \E km \in MasterKinds :
    IF MasterQueryHangs(km)
    THEN Blocked("click", <<x, y>>, "left", TRUE, mode) ELSE
    \E ms \in {GetMasterScreenSize(master_screen_size, BridgeReply(Master, km))} :
    \E pt \in {ConvertToPhoneCoords(ms.size, frame, mode, x, y)} :
        /\ drag_start' = IF pt # NoPoint THEN pt ELSE drag_start
        /\ drag_active' = IF pt # NoPoint THEN TRUE ELSE drag_active
        /\ ev' = [Event("click", <<x, y>>, "left", TRUE, mode)
                    EXCEPT !.handled = TRUE, !.inwin = TRUE,
                           !.size = ms.size, !.mapped = pt]
        /\ emitted' = <<>>
        /\ Apply([NoDispatch(ms.cache, slave_screen_sizes)
                    EXCEPT !.queried = IF ms.queried THEN <<Master>> ELSE <<>>])
        /\ UNCHANGED listener

\* Lines 809-831: the release of a held press.  An exception of the
\* dispatch leaves the callback before lines 830-831.
ReleaseHeld(x, y, mode) ==
    \E km \in MasterKinds :
    IF MasterQueryHangs(km)
    THEN Blocked("click", <<x, y>>, "left", FALSE, mode) ELSE
    \E ms \in {GetMasterScreenSize(master_screen_size, BridgeReply(Master, km))} :
    \E pt \in {ConvertToPhoneCoords(ms.size, frame, mode, x, y)} :
      LET q0 == IF ms.queried THEN <<Master>> ELSE <<>>
          it == ReleaseIntent(drag_start, pt)
          taps == pt # NoPoint /\ it.kind = "tap"
      IN  \E ks \in SlaveKinds(pt # NoPoint) :
          \E out \in SlaveOutcomes(taps) :
          \E d \in {IF pt = NoPoint
                     THEN NoDispatch(ms.cache, slave_screen_sizes)
                     ELSE IF it.kind = "drag"
                     THEN MirrorSwipe(ms.cache, slave_screen_sizes,
                                      slave_devices, it.p, SwipeDuration,
                                      Replies(km, ks))
                     ELSE MirrorTap(ms.cache, slave_screen_sizes,
                                    slave_devices, pt[1], pt[2],
                                    Replies(km, ks), out)} :
                /\ ev' = [Event("click", <<x, y>>, "left", FALSE, mode)
                            EXCEPT !.handled = TRUE, !.inwin = TRUE,
                                   !.size = ms.size, !.mapped = pt,
                                   !.out = IF taps THEN out ELSE <<>>]
                /\ emitted' = IF pt = NoPoint THEN <<>> ELSE <<it>>
                /\ Apply([d EXCEPT !.queried = q0 \o @])
                /\ drag_start' = IF d.raised THEN drag_start ELSE NoPoint
                /\ drag_active' = IF d.raised THEN drag_active ELSE FALSE
                /\ listener' = IF d.raised THEN "stopped" ELSE listener

\* A release that taps without the test of line 808.
LeftReleaseUnguarded(x, y, mode) ==
    /\ ev' = [Event("click", <<x, y>>, "left", FALSE, mode)
                EXCEPT !.handled = TRUE, !.inwin = TRUE]
    /\ emitted' = <<Intent("tap", <<x, y>>)>>
    /\ \E ks \in SlaveKinds(FALSE), out \in SlaveOutcomes(FALSE) :
       \E d \in {MirrorTap(master_screen_size, slave_screen_sizes,
                            slave_devices, x, y, Replies(1, ks), out)} :
           Apply(d)
    /\ UNCHANGED <<drag_start, drag_active, listener>>

\* on_click, left button released (lines 806-831).
LeftRelease(x, y, mode) ==
    IF PointerDown(drag_active, drag_start)
    THEN ReleaseHeld(x, y, mode)
    ELSE /\ ev' = [Event("click", <<x, y>>, "left", FALSE, mode)
                     EXCEPT !.handled = TRUE, !.inwin = TRUE]
         /\ emitted' = <<>>
         /\ Apply(NoDispatch(master_screen_size, slave_screen_sizes))
         /\ UNCHANGED <<drag_start, drag_active, listener>>

\* on_click, right button pressed (lines 832-835).
RightPress(x, y) ==
    /\ ev' = [Event("click", <<x, y>>, "right", TRUE, "ok")
                EXCEPT !.handled = TRUE, !.inwin = TRUE]
    /\ emitted' = <<Intent("key", <<"KEYCODE_BACK">>)>>
    /\ Apply(MirrorKey(master_screen_size, slave_screen_sizes, slave_devices,
                       "KEYCODE_BACK"))
    /\ UNCHANGED <<drag_start, drag_active, listener>>

\* on_click inside the window with nothing to do (the release of the right
\* button).
OtherClick(x, y, button, pressed) ==
    /\ ev' = [Event("click", <<x, y>>, button, pressed, "ok")
                EXCEPT !.handled = TRUE, !.inwin = TRUE]
    /\ emitted' = <<>>
    /\ Apply(NoDispatch(master_screen_size, slave_screen_sizes))
    /\ UNCHANGED <<drag_start, drag_active, listener>>

\* A click outside the window that leaves the classifier as it is.
ClickOutsideKeepsGesture(x, y, button, pressed) ==
    /\ ev' = [Event("click", <<x, y>>, button, pressed, "ok")
                EXCEPT !.handled = TRUE]
    /\ emitted' = <<>>
    /\ Apply(NoDispatch(master_screen_size, slave_screen_sizes))
    /\ UNCHANGED <<drag_start, drag_active, listener>>

\* on_click outside the window (lines 836-840): the drag is cancelled.
ClickOutside(x, y, button, pressed) ==
    /\ ev' = [Event("click", <<x, y>>, button, pressed, "ok")
                EXCEPT !.handled = TRUE]
    /\ emitted' = <<>>
    /\ Apply(NoDispatch(master_screen_size, slave_screen_sizes))
    /\ drag_start' = IF drag_active THEN NoPoint ELSE drag_start
    /\ drag_active' = FALSE
    /\ UNCHANGED listener

\* The mouse: a left press comes with the left button up, a left release
\* with it down; press records where the held press fell on the surface
\* and whether the window-system calls of its callback succeeded.
Mouse(x, y, button, pressed, mode) ==
    /\ button = "left" => (pressed <=> press = Up)
    /\ button # "left" => mode = "ok"
    /\ press' = IF button # "left" THEN press
                ELSE IF ~pressed THEN Up
                ELSE [surface |-> SurfaceClass(frame, OverrideGeom(Master), x, y),
                      ok |-> (mode = "ok")]

\* on_click(x, y, button, pressed); mode is the window-system call of the
\* conversion that raises.
OnClick(x, y, button, pressed, mode) ==
    /\ listener = "alive"
    /\ Mouse(x, y, button, pressed, mode)
    /\ IF ~running \/ ~hwnd
       THEN Unhandled("click", button, pressed)
       ELSE IF ~IsPointInWindow(frame, x, y)
       THEN ClickOutside(x, y, button, pressed)
       ELSE IF button = "left" /\ pressed THEN LeftPress(x, y, mode)
       ELSE IF button = "left" THEN LeftRelease(x, y, mode)
       ELSE IF button = "right" /\ pressed THEN RightPress(x, y)
       ELSE OtherClick(x, y, button, pressed)
    /\ UNCHANGED <<main, threads, pool, slave_devices, hwnd, running, monitor, frame>>

\* Lines 848-864: the scroll at a point of the window.
ScrollInside(x, y, dy, mode) ==
    \E km \in MasterKinds :
    IF MasterQueryHangs(km)
    THEN Blocked("scroll", <<x, y, dy>>, "none", FALSE, mode) ELSE
    \E ms \in {GetMasterScreenSize(master_screen_size, BridgeReply(Master, km))} :
    \E pt \in {ConvertToPhoneCoords(ms.size, frame, mode, x, y)} :
      LET q0 == IF ms.queried THEN <<Master>> ELSE <<>>
          p  == IF dy > 0
                THEN <<pt[1], pt[2] - SwipeDistance, pt[1], pt[2] + SwipeDistance>>
                ELSE <<pt[1], pt[2] + SwipeDistance, pt[1], pt[2] - SwipeDistance>>
          swipes == pt # NoPoint /\ dy # 0
      IN  \E ks \in SlaveKinds(swipes) :
            \E d \in {IF swipes
                     THEN MirrorSwipe(ms.cache, slave_screen_sizes, slave_devices,
                                      p, SwipeDuration, Replies(km, ks))
                     ELSE NoDispatch(ms.cache, slave_screen_sizes)} :
                /\ ev' = [Event("scroll", <<x, y, dy>>, "none", FALSE, mode)
                            EXCEPT !.handled = TRUE, !.inwin = TRUE,
                                   !.size = ms.size, !.mapped = pt]
                /\ emitted' = IF swipes THEN <<Intent("drag", p)>> ELSE <<>>
                /\ Apply([d EXCEPT !.queried = q0 \o @])
                /\ listener' = IF d.raised THEN "stopped" ELSE listener
                /\ UNCHANGED <<drag_start, drag_active>>

\* on_scroll(x, y, dx, dy) (lines 842-864).
OnScroll(x, y, dy, mode) ==
    /\ listener = "alive"
    /\ IF ~running
       THEN Unhandled("scroll", "none", FALSE)
       ELSE IF ~(hwnd /\ IsPointInWindow(frame, x, y))
       THEN /\ ev' = [Event("scroll", <<x, y, dy>>, "none", FALSE, "ok")
                        EXCEPT !.handled = TRUE]
            /\ emitted' = <<>>
            /\ Apply(NoDispatch(master_screen_size, slave_screen_sizes))
            /\ UNCHANGED <<drag_start, drag_active, listener>>
       ELSE ScrollInside(x, y, dy, mode)
    /\ UNCHANGED <<main, threads, pool, slave_devices, hwnd, running, monitor, frame, press>>

(***************************************************************************)
(* The monitoring thread and the stop signal.                              *)
(***************************************************************************)
Idle(op) ==
    /\ ev' = Quiet(op)
    /\ emitted' = <<>>
    /\ Apply(NoDispatch(master_screen_size, slave_screen_sizes))

\* Lines 886-896: every 50th pass looks for the window; found1 and found2
\* are the answers of the two get_scrcpy_window calls, the second of which
\* is made when the first finds no window and hwnd is set.  The log keeps
\* the answers of the calls made.
MonitorCheck(found1, found2) ==
    /\ monitor = "loop"
    /\ running
    /\ hwnd' = IF ~found1 /\ hwnd THEN found2 ELSE hwnd
    /\ ev' = [Quiet("monitor")
                EXCEPT !.pt = IF ~found1 /\ hwnd THEN <<found1, found2>>
                              ELSE <<found1>>]
    /\ emitted' = <<>>
    /\ Apply(NoDispatch(master_screen_size, slave_screen_sizes))
    /\ UNCHANGED <<main, threads, pool, slave_devices, drag_start, drag_active, running, monitor,
                   listener, frame, press>>

\* Lines 886, 898-900: the loop sees the stop signal and stops the listener;
\* a listener thread that is held in a callback does not end.
MonitorExit ==
    /\ monitor = "loop"
    /\ ~running
    /\ monitor' = "done"
    /\ listener' = IF listener = "blocked" THEN "blocked" ELSE "stopped"
    /\ Idle("exit")
    /\ UNCHANGED <<main, threads, pool, slave_devices, drag_start, drag_active, hwnd, running,
                   frame, press>>

\* stop_mirroring (line 488).
StopMirroring ==
    /\ running
    /\ running' = FALSE
    /\ Idle("stop")
    /\ UNCHANGED <<main, threads, pool, slave_devices, drag_start, drag_active, hwnd, monitor,
                   listener, frame, press>>

(***************************************************************************)
(* The specification of a mirroring session.                               *)
(***************************************************************************)
Click ==
    \E pt \in ScreenPoints, button \in Buttons, pressed \in BOOLEAN,
       mode \in SessionModes :
        OnClick(pt[1], pt[2], button, pressed, mode)

Scroll ==
    \E pt \in ScrollPoints, dy \in {-1, 0, 1}, mode \in SessionModes :
        OnScroll(pt[1], pt[2], dy, mode)

Monitor == \E found1, found2 \in BOOLEAN : MonitorCheck(found1, found2)

Next ==
    \/ Click
    \/ Scroll
    \/ Monitor
    \/ MonitorExit
    \/ StopMirroring

Spec == Init /\ [][Next]_vars

\* The session with its monitoring thread scheduled: the loop of lines
\* 886-896 sleeps 0.1 s a pass and tests self.running again, so it does not
\* stay in the loop for ever once the stop signal is set.
SpecLive == Init /\ [][Next]_vars /\ WF_vars(MonitorExit)

(***************************************************************************)
(* The specification of the coordinate mappings: the controller holds any  *)
(* of the geometries below for the master and for the slaves, the window   *)
(* has any of the frames, and the two mappings are applied to the points   *)
(* below: convert_to_phone_coords to screen points, mirror_tap (through    *)
(* manual_mirror_tap) to master points.                                    *)
(***************************************************************************)
MapGeoms == { Geom(1080, 2400), Geom(720, 1600), Geom(800, 1280) }

\* Master points: the centre, the origin, the last pixel and a point that
\* rounds low on a 1080x2400 master; a point past the last pixel and a
\* point with a negative coordinate.
TapPoints ==
    { <<540, 1200>>, <<0, 0>>, <<39, 78>>, <<719, 1599>>, <<1080, 2400>>,
      <<-5, 100>> }

\* Screen points: the corners of the client areas, the centre of the
\* 540x1200 client area, the right and bottom edges of the 540x1200
\* window, and the points on both sides of each edge of the letterbox bars
\* of the 800x1200 and 540x1400 frames for a 9:20 master.
MapScreenPoints ==
    { <<108, 131>>, <<648, 1331>>, <<908, 1331>>, <<648, 1531>>,
      <<378, 731>>, <<656, 700>>, <<378, 1339>>,
      <<237, 731>>, <<238, 731>>, <<778, 731>>, <<779, 731>>,
      <<378, 230>>, <<378, 231>>, <<378, 1431>>, <<378, 1432>> }

InitMap ==
    /\ slave_devices = [i \in 1..MaxSlaves |-> i]
    /\ master_screen_size \in MapGeoms
    /\ slave_screen_sizes \in [AllSlaves -> MapGeoms]
    /\ frame \in Frames
    /\ pool = IdlePool(<<Master>> \o slave_devices)
    /\ Started

\* manual_mirror_tap(x, y) (lines 945-947).
ManualMirrorTap(x, y, rep, out) ==
    /\ ev' = [Event("tap", <<x, y>>, "none", FALSE, "ok")
                EXCEPT !.handled = TRUE, !.size = master_screen_size,
                       !.out = out]
    /\ emitted' = <<Intent("tap", <<x, y>>)>>
    /\ \E d \in {MirrorTap(master_screen_size, slave_screen_sizes,
                            slave_devices, x, y, rep, out)} : Apply(d)
    /\ UNCHANGED <<main, threads, pool, slave_devices, drag_start, drag_active, hwnd, running,
                   monitor, listener, frame, press>>

\* convert_to_phone_coords(window_x, window_y, hwnd) (lines 590-717), for a
\* point is_point_in_window accepts, as its callers call it.
ConvertCall(x, y, mode) ==
    /\ IsPointInWindow(frame, x, y)
    /\ \E km \in {k \in MasterKinds : ~MasterQueryHangs(k)} :
       \E ms \in {GetMasterScreenSize(master_screen_size, BridgeReply(Master, km))} :
       \E pt \in {ConvertToPhoneCoords(ms.size, frame, mode, x, y)} :
          /\ ev' = [Event("convert", <<x, y>>, "none", FALSE, mode)
                      EXCEPT !.handled = TRUE, !.size = ms.size, !.mapped = pt]
          /\ emitted' = <<>>
          /\ Apply([NoDispatch(ms.cache, slave_screen_sizes)
                      EXCEPT !.queried = IF ms.queried THEN <<Master>> ELSE <<>>])
          /\ UNCHANGED <<main, threads, pool, slave_devices, drag_start, drag_active, hwnd, running,
                         monitor, listener, frame, press>>

MapTap ==
    \E pt \in TapPoints, out \in SlaveOutcomes(FALSE) :
        ManualMirrorTap(pt[1], pt[2], Replies(1, [s \in AllSlaves |-> 1]), out)

MapConvert ==
    \E pt \in MapScreenPoints, mode \in W32Modes :
        ConvertCall(pt[1], pt[2], mode)

NextMap ==
    \/ MapTap
    \/ MapConvert

SpecMap == InitMap /\ [][NextMap]_vars

(***************************************************************************)
(* The specification of geometry resolution and of its cache: the          *)
(* controller was constructed against any replies of the bridge, and the   *)
(* resolvers and the dispatches of simple_mirror_test.py run against any   *)
(* further replies.                                                        *)
(***************************************************************************)
\* The replies a dispatch may find: the size, a failure of both commands,
\* the dump with both fields, a size of height 0 and the physical size.
DispatchKinds == {1, 5, 6, 10, 11}

\* The key codes dispatched.
KeyCodes == {"KEYCODE_BACK", "KEYCODE_HOME", "66"}

InitRes ==
    /\ \E n \in 0..MaxSlaves : slave_devices = [i \in 1..n |-> i]
    /\ \E k \in ResolveKinds :
         master_screen_size =
             GetMasterScreenSize(ZeroGeom, BridgeReply(Master, k)).size
    /\ \E k \in [AllSlaves -> ResolveKinds] :
         /\ \A s \in SlaveSet(slave_devices) :
              ~GetScreenInfo(BridgeReply(s, k[s])).raised
         /\ slave_screen_sizes =
              [s \in AllSlaves |->
                 IF s \in SlaveSet(slave_devices)
                 THEN CachedAtStart(s, k[s]) ELSE NoSize]
    /\ frame = Frame(540, 1200)
    /\ pool = IdlePool(<<Master>> \o slave_devices)
    /\ Started

\* Device d has a size in the cache (line 372, lines 196 and 309).
Cached(d) ==
    IF d = Master THEN master_screen_size.width > 0
    ELSE slave_screen_sizes[d] # NoSize

\* The kinds of reply the devices have for one dispatch; a device whose
\* size is cached reports that size or, by now, another one.
DispatchReplies ==
    { k \in [Devices -> DispatchKinds] :
        \A d \in Devices : Cached(d) => k[d] \in {1, 11} }

\* get_master_screen_size() against a reply of kind k.
MasterSizeCall(k) ==
    \E ms \in {GetMasterScreenSize(master_screen_size, BridgeReply(Master, k))} :
        /\ ev' = [Quiet("master_size") EXCEPT !.handled = TRUE,
                                              !.size = ms.size,
                                              !.rep = (Master :> k)]
        /\ emitted' = <<>>
        /\ Apply([NoDispatch(ms.cache, slave_screen_sizes)
                    EXCEPT !.queried = IF ms.queried THEN <<Master>> ELSE <<>>])
        /\ UNCHANGED <<main, threads, pool, slave_devices, drag_start, drag_active, hwnd, running,
                       monitor, listener, frame, press>>

\* controller.get_screen_info(s) against a reply of kind k.
ScreenInfoCall(s, k) ==
    \E info \in {GetScreenInfo(BridgeReply(s, k))} :
        /\ ev' = [Quiet("screen_info") EXCEPT !.handled = TRUE,
                                              !.size = info.size,
                                              !.rep = (s :> k)]
        /\ emitted' = <<>>
        /\ Apply([NoDispatch(master_screen_size, slave_screen_sizes)
                    EXCEPT !.queried = <<s>>, !.raised = info.raised])
        /\ UNCHANGED <<main, threads, pool, slave_devices, drag_start, drag_active, hwnd, running,
                       monitor, listener, frame, press>>

\* mirror_tap(x, y) against the replies of kinds k.
MirrorTapCall(x, y, k) ==
    \E rs \in {[d \in Devices |-> BridgeReply(d, k[d])]} :
    \E ms \in {GetMasterScreenSize(master_screen_size, rs[Master])} :
    \E d \in {MirrorTap(master_screen_size, slave_screen_sizes, slave_devices,
                         x, y, rs, [s \in SlaveSet(slave_devices) |-> "ok"])} :
        /\ ev' = [Event("tap", <<x, y>>, "none", FALSE, "ok")
                    EXCEPT !.handled = TRUE, !.size = ms.size, !.rep = k,
                           !.out = [s \in SlaveSet(slave_devices) |-> "ok"]]
        /\ emitted' = <<Intent("tap", <<x, y>>)>>
        /\ Apply(d)
        /\ UNCHANGED <<main, threads, pool, slave_devices, drag_start, drag_active, hwnd, running,
                       monitor, listener, frame, press>>

\* mirror_swipe(x1, y1, x2, y2, duration) against the replies of kinds k.
MirrorSwipeCall(p, duration, k) ==
    \E rs \in {[d \in Devices |-> BridgeReply(d, k[d])]} :
    \E ms \in {GetMasterScreenSize(master_screen_size, rs[Master])} :
    \E d \in {MirrorSwipe(master_screen_size, slave_screen_sizes,
                           slave_devices, p, duration, rs)} :
        /\ ev' = [Event("swipe", p, "none", FALSE, "ok")
                    EXCEPT !.handled = TRUE, !.size = ms.size, !.rep = k]
        /\ emitted' = <<Intent("drag", p)>>
        /\ Apply(d)
        /\ UNCHANGED <<main, threads, pool, slave_devices, drag_start, drag_active, hwnd, running,
                       monitor, listener, frame, press>>

\* mirror_key(keycode).
MirrorKeyCall(keycode) ==
    /\ ev' = [Event("key", <<keycode>>, "none", FALSE, "ok")
                EXCEPT !.handled = TRUE]
    /\ emitted' = <<Intent("key", <<keycode>>)>>
    /\ Apply(MirrorKey(master_screen_size, slave_screen_sizes, slave_devices,
                       keycode))
    /\ UNCHANGED <<main, threads, pool, slave_devices, drag_start, drag_active, hwnd, running,
                   monitor, listener, frame, press>>

ResMaster == \E k \in ResolveKinds : MasterSizeCall(k)

ResSlave ==
    \E s \in SlaveSet(slave_devices), k \in ResolveKinds : ScreenInfoCall(s, k)

\* simple_mirror_test.py line 46.
ResTap == \E k \in DispatchReplies : MirrorTapCall(500, 1000, k)

\* simple_mirror_test.py line 60.
ResSwipe ==
    \E k \in DispatchReplies :
        MirrorSwipeCall(<<500, 1500, 500, 500>>, SwipeDuration, k)

\* simple_mirror_test.py line 53 and on_click line 835.
ResKey == \E keycode \in KeyCodes : MirrorKeyCall(keycode)

NextRes ==
    \/ ResMaster
    \/ ResSlave
    \/ ResTap
    \/ ResSwipe
    \/ ResKey

SpecRes == InitRes /\ [][NextRes]_vars

(***************************************************************************)
(* PhoneController and the text operations: execute_command, execute_all,  *)
(* input_text, input_text_all and ScreenMirrorController.mirror_text.  A   *)
(* text is a sequence of one-character strings.                            *)
(***************************************************************************)
MaxText == 2
Alphabet == {"a", " ", "&"}
Texts == UNION {[1..n -> Alphabet] : n \in 0..MaxText}

\* str.replace(old, new) for a one-character old.
RECURSIVE Replace(_, _, _)
Replace(text, old, new) ==
    IF text = <<>> THEN <<>>
    ELSE (IF Head(text) = old THEN new ELSE <<Head(text)>>)
             \o Replace(Tail(text), old, new)

\* An escape of the spaces alone.
EscapeTextSpacesOnly(text) == Replace(text, " ", <<"%", "s">>)

\* text.replace(' ', '%s').replace('&', '\\&') (phone_controller.py lines
\* 105 and 110, screen_mirror_controller.py line 366).
EscapeText(text) ==
    Replace(Replace(text, " ", <<"%", "s">>), "&", <<"\\", "&">>)

\* What subprocess.run does in execute_command: the command exits with 0,
\* exits with another code, runs into the timeout of 30 s, or cannot be
\* launched.
BridgeOutcomes == {"ok", "nonzero", "timeout", "oserror"}

Command(kind, args) == [cmd |-> kind, args |-> args]

\* tap_all(500, 1000) (phone_controller.py lines 88-90).
TapCommand == Command("tap", <<500, 1000>>)

\* An execute_command that reports a timeout as any other failure.
ExecuteCommandTimeoutAsFailure(device_id, outcome) ==
    CASE outcome \in {"timeout", "oserror"} ->
           [device_id |-> device_id, success |-> FALSE, error |-> "str(e)"]
      [] OTHER ->
           [device_id |-> device_id, success |-> (outcome = "ok"),
            error |-> "stderr"]

\* execute_command (lines 33-59): the result it returns.
ExecuteCommand(device_id, outcome) ==
    CASE outcome = "timeout" ->
           [device_id |-> device_id, success |-> FALSE,
            error |-> "Command timeout"]
      [] outcome = "oserror" ->
           [device_id |-> device_id, success |-> FALSE, error |-> "str(e)"]
      [] OTHER ->
           [device_id |-> device_id, success |-> (outcome = "ok"),
            error |-> "stderr"]

\* The controller, the session and the resolution log stay as they are.
PhoneFrame ==
    /\ emitted' = <<>>
    /\ queried' = <<>>
    /\ UNCHANGED <<main, threads, slave_devices, master_screen_size,
                   slave_screen_sizes, drag_start, drag_active, hwnd, running,
                   monitor, listener, frame, press>>

\* execute_command(command, device_id) called for op on pt.
ExecuteCommandCall(op, pt, command, device_id, outcome) ==
    /\ pool.phase = "idle"
    /\ ev' = [Event(op, pt, "none", FALSE, "ok")
                EXCEPT !.handled = TRUE, !.out = (device_id :> outcome)]
    /\ sent' = <<Cmd(device_id, command.cmd, command.args)>>
    /\ results' = <<ExecuteCommand(device_id, outcome)>>
    /\ raised' = FALSE
    /\ UNCHANGED pool
    /\ PhoneFrame

\* execute_all(command, parallel) called for op on pt (lines 61-81).  With
\* no device it returns []; in sequential mode it runs the devices in
\* order; in parallel mode it submits one worker per device.
ExecuteAll(op, pt, command, parallel, out) ==
    /\ pool.phase = "idle"
    /\ raised' = FALSE
    /\ PhoneFrame
    /\ IF Len(pool.devices) = 0
       THEN /\ ev' = [Event(op, pt, "none", FALSE, "none")
                        EXCEPT !.handled = TRUE]
            /\ sent' = <<>>
            /\ results' = <<>>
            /\ UNCHANGED pool
       ELSE IF parallel
       THEN /\ ev' = [Event("submit", pt, "none", FALSE, "parallel")
                        EXCEPT !.out = out]
            /\ sent' = <<>>
            /\ results' = <<>>
            /\ pool' = [pool EXCEPT !.phase = "running", !.op = op,
                                    !.pt = pt, !.command = command,
                                    !.out = out, !.done = {},
                                    !.collected = {}]
       ELSE /\ ev' = [Event(op, pt, "none", FALSE, "sequential")
                        EXCEPT !.handled = TRUE, !.out = out]
            /\ sent' = [i \in 1..Len(pool.devices) |->
                          Cmd(pool.devices[i], command.cmd, command.args)]
            /\ results' = [i \in 1..Len(pool.devices) |->
                             ExecuteCommand(pool.devices[i],
                                            out[pool.devices[i]])]
            /\ UNCHANGED pool

\* A worker of the pool runs execute_command for device d (line 73).
Worker(d) ==
    /\ pool.phase = "running"
    /\ d \notin pool.done
    /\ pool' = [pool EXCEPT !.done = @ \cup {d}]
    /\ ev' = [Quiet("worker") EXCEPT !.mode = "parallel", !.out = pool.out]
    /\ sent' = Append(sent, Cmd(d, pool.command.cmd, pool.command.args))
    /\ UNCHANGED <<results, raised>>
    /\ PhoneFrame

\* A collection that keeps the successful results only.
CollectSuccessful(d) ==
    /\ pool.phase = "running"
    /\ d \in pool.done \ pool.collected
    /\ pool' = [pool EXCEPT !.collected = @ \cup {d}]
    /\ ev' = [Quiet("collect") EXCEPT !.mode = "parallel", !.out = pool.out]
    /\ results' = IF pool.out[d] = "ok"
                  THEN Append(results, ExecuteCommand(d, pool.out[d]))
                  ELSE results
    /\ UNCHANGED <<sent, raised>>
    /\ PhoneFrame

\* as_completed hands over the finished worker of device d and its result
\* is appended (lines 77-78).
Collect(d) ==
    /\ pool.phase = "running"
    /\ d \in pool.done \ pool.collected
    /\ pool' = [pool EXCEPT !.collected = @ \cup {d}]
    /\ ev' = [Quiet("collect") EXCEPT !.mode = "parallel", !.out = pool.out]
    /\ results' = Append(results, ExecuteCommand(d, pool.out[d]))
    /\ UNCHANGED <<sent, raised>>
    /\ PhoneFrame

\* Every worker's result is collected: execute_all returns results (line
\* 81).
ExecuteAllReturn ==
    /\ pool.phase = "running"
    /\ pool.collected = SlaveSet(pool.devices)
    /\ pool' = IdlePool(pool.devices)
    /\ ev' = [Event(pool.op, pool.pt, "none", FALSE, "parallel")
                EXCEPT !.handled = TRUE, !.out = pool.out]
    /\ UNCHANGED <<sent, results, raised>>
    /\ PhoneFrame

\* install_app (lines 166-185): 'Success' in stdout, or the caught
\* exception (the timeout of 120 s, a launch failure).
InstallApp(device_id, outcome) ==
    IF outcome \in {"timeout", "oserror"}
    THEN [device_id |-> device_id, success |-> FALSE, error |-> "str(e)"]
    ELSE [device_id |-> device_id, success |-> (outcome = "ok"),
          output |-> "stdout"]

\* The orders in which the futures of the devices can complete.
Completions(devices) ==
    { o \in [1..Len(devices) -> SlaveSet(devices)] :
        \A i, j \in 1..Len(devices) : o[i] = o[j] => i = j }

\* install_app_all(apk_path) (lines 187-197), from call to return.  It has
\* no test for an empty device list: ThreadPoolExecutor(max_workers=0)
\* raises ValueError at line 190.  Otherwise every device gets one install
\* and the results are appended in the order of completion.
InstallAppAll(out, order) ==
    /\ pool.phase = "idle"
    /\ ev' = [Event("install_app_all", NoPoint, "none", FALSE, "parallel")
                EXCEPT !.handled = TRUE, !.out = out]
    /\ raised' = (Len(pool.devices) = 0)
    /\ sent' = [i \in 1..Len(pool.devices) |->
                  Cmd(order[i], "install", <<"apk_path">>)]
    /\ results' = [i \in 1..Len(pool.devices) |->
                     InstallApp(order[i], out[order[i]])]
    /\ UNCHANGED pool
    /\ PhoneFrame

\* mirror_text (lines 361-368): nothing without slaves, else the escaped
\* text goes to execute_on_slaves.
MirrorText(slaves, text, out) ==
    IF Len(slaves) = 0 THEN [sent |-> <<>>, results |-> <<>>]
    ELSE ExecuteOnSlaves(slaves, "text", <<EscapeText(text)>>, out)

MirrorTextCall(text, out) ==
    /\ pool.phase = "idle"
    /\ ev' = [Event("mirror_text", text, "none", FALSE, "ok")
                EXCEPT !.handled = TRUE, !.out = out]
    /\ \E d \in {MirrorText(slave_devices, text, out)} :
         /\ sent' = d.sent
         /\ results' = d.results
    /\ raised' = FALSE
    /\ UNCHANGED pool
    /\ PhoneFrame

\* input_text(device_id, text) (lines 102-106).
InputText(device_id, text, outcome) ==
    ExecuteCommandCall("input_text", text,
                       Command("text", <<EscapeText(text)>>), device_id,
                       outcome)

\* input_text_all(text) (lines 108-111).
InputTextAll(text, out) ==
    ExecuteAll("input_text_all", text,
               Command("text", <<EscapeText(text)>>), TRUE, out)

\* The scanned devices: none, or the master and the slaves.
InitPhone ==
    /\ \E n \in 0..MaxSlaves : slave_devices = [i \in 1..n |-> i]
    /\ master_screen_size = OverrideGeom(Master)
    /\ slave_screen_sizes =
         [s \in AllSlaves |->
            IF s \in SlaveSet(slave_devices) THEN OverrideGeom(s) ELSE NoSize]
    /\ frame = Frame(540, 1200)
    /\ pool \in {IdlePool(<<>>), IdlePool(<<Master>> \o slave_devices)}
    /\ Started

PhoneOutcomes == [SlaveSet(pool.devices) -> BridgeOutcomes]

PhoneCommand ==
    \E d \in SlaveSet(pool.devices), outcome \in BridgeOutcomes :
        ExecuteCommandCall("execute_command", NoPoint, TapCommand, d, outcome)

PhoneAll ==
    \E parallel \in BOOLEAN, out \in PhoneOutcomes :
        ExecuteAll("execute_all", NoPoint, TapCommand, parallel, out)

PhoneWorker == \E d \in SlaveSet(pool.devices) : Worker(d)

PhoneCollect == \E d \in SlaveSet(pool.devices) : Collect(d)

PhoneText ==
    \E text \in Texts, d \in SlaveSet(pool.devices),
       outcome \in BridgeOutcomes :
        InputText(d, text, outcome)

PhoneTextAll ==
    \E text \in Texts :
        InputTextAll(text, [d \in SlaveSet(pool.devices) |-> "ok"])

PhoneMirrorText ==
    \E text \in Texts, out \in SlaveOutcomes(TRUE) :
        MirrorTextCall(text, out)

PhoneInstall ==
    \E out \in [SlaveSet(pool.devices) -> {"ok", "nonzero", "timeout"}],
       order \in Completions(pool.devices) :
        InstallAppAll(out, order)

NextPhone ==
    \/ PhoneCommand
    \/ PhoneAll
    \/ PhoneWorker
    \/ PhoneCollect
    \/ ExecuteAllReturn
    \/ PhoneText
    \/ PhoneTextAll
    \/ PhoneMirrorText
    \/ PhoneInstall

SpecPhone == InitPhone /\ [][NextPhone]_vars

(***************************************************************************)
(* The specification of dispatch with degenerate geometries: the           *)
(* controller was constructed against replies that leave a size resolved,  *)
(* unresolved or resolved with a height of 0, the window may have an empty *)
(* client area or be collapsed, and the master's own command may fail.     *)
(***************************************************************************)
\* The replies: the size, a failure of both commands, a size of height 0.
DimKinds == {1, 5, 10}

\* A window collapsed to a point.
CollapsedFrame ==
    [left |-> 100, top |-> 100, right |-> 100, bottom |-> 100, cw |-> 0,
     ch |-> 0, cx |-> 100, cy |-> 100]

\* The frames: a 540x1200 client area, client areas without width or
\* without height, and the collapsed window.
DimFrames == { Frame(540, 1200), Frame(0, 1200), Frame(540, 0), CollapsedFrame }

\* A corner common to the frames, the client origin and the centre of the
\* 540x1200 client area.
DimScreenPoints == { <<100, 100>>, <<108, 131>>, <<378, 731>> }

InitDispatch ==
    /\ \E n \in 0..MaxSlaves : slave_devices = [i \in 1..n |-> i]
    /\ \E k \in DimKinds :
         master_screen_size =
             GetMasterScreenSize(ZeroGeom, BridgeReply(Master, k)).size
    /\ \E k \in [AllSlaves -> DimKinds] :
         slave_screen_sizes =
             [s \in AllSlaves |->
                IF s \in SlaveSet(slave_devices)
                THEN CachedAtStart(s, k[s]) ELSE NoSize]
    /\ frame \in DimFrames
    /\ pool = IdlePool(<<Master>> \o slave_devices)
    /\ Started

\* The kinds of reply the devices have for one dispatch.
DimReplies ==
    { k \in [Devices -> DimKinds] : \A d \in Devices : Cached(d) => k[d] = 1 }

\* mirror_tap(x, y) against the replies of kinds k and the outcomes out of
\* the commands, the master's included.
MirrorTapOut(x, y, k, out) ==
    \E rs \in {[d \in Devices |-> BridgeReply(d, k[d])]} :
    \E ms \in {GetMasterScreenSize(master_screen_size, rs[Master])} :
    \E d \in {MirrorTap(master_screen_size, slave_screen_sizes, slave_devices,
                         x, y, rs, out)} :
        /\ ev' = [Event("tap", <<x, y>>, "none", FALSE, "ok")
                    EXCEPT !.handled = TRUE, !.size = ms.size, !.rep = k,
                           !.out = out]
        /\ emitted' = <<Intent("tap", <<x, y>>)>>
        /\ Apply(d)
        /\ UNCHANGED <<main, threads, pool, slave_devices, drag_start, drag_active, hwnd,
                       running, monitor, listener, frame, press>>

\* mirror_swipe(x1, y1, x2, y2, duration) likewise; it reads no outcome.
MirrorSwipeOut(p, duration, k, out) ==
    \E rs \in {[d \in Devices |-> BridgeReply(d, k[d])]} :
    \E ms \in {GetMasterScreenSize(master_screen_size, rs[Master])} :
    \E d \in {MirrorSwipe(master_screen_size, slave_screen_sizes,
                           slave_devices, p, duration, rs)} :
        /\ ev' = [Event("swipe", p, "none", FALSE, "ok")
                    EXCEPT !.handled = TRUE, !.size = ms.size, !.rep = k,
                           !.out = out]
        /\ emitted' = <<Intent("drag", p)>>
        /\ Apply(d)
        /\ UNCHANGED <<main, threads, pool, slave_devices, drag_start, drag_active, hwnd,
                       running, monitor, listener, frame, press>>

\* mirror_key(keycode) likewise.
MirrorKeyOut(keycode, out) ==
    /\ ev' = [Event("key", <<keycode>>, "none", FALSE, "ok")
                EXCEPT !.handled = TRUE, !.out = out]
    /\ emitted' = <<Intent("key", <<keycode>>)>>
    /\ Apply(MirrorKey(master_screen_size, slave_screen_sizes, slave_devices,
                       keycode))
    /\ UNCHANGED <<main, threads, pool, slave_devices, drag_start, drag_active, hwnd, running,
                   monitor, listener, frame, press>>

\* The outcomes of one dispatch: any outcome of the master's command, the
\* slaves' commands succeeding.
MasterOutcomes ==
    { [d \in Devices |-> IF d = Master THEN o ELSE "ok"] : o \in CmdOutcomes }

DimTap ==
    \E k \in DimReplies, out \in MasterOutcomes :
        MirrorTapOut(500, 1000, k, out)

DimSwipe ==
    \E k \in DimReplies, out \in MasterOutcomes :
        MirrorSwipeOut(<<500, 1500, 500, 500>>, SwipeDuration, k, out)

DimKey ==
    \E keycode \in KeyCodes, out \in MasterOutcomes :
        MirrorKeyOut(keycode, out)

DimConvert ==
    \E pt \in DimScreenPoints, mode \in W32Modes :
        ConvertCall(pt[1], pt[2], mode)

NextDispatch ==
    \/ DimTap
    \/ DimSwipe
    \/ DimKey
    \/ DimConvert

SpecDispatch == InitDispatch /\ [][NextDispatch]_vars

(***************************************************************************)
(* Two dispatch operations on one controller.  mirror_tap and mirror_swipe *)
(* take no lock: each looks the slave up in slave_screen_sizes, resolves   *)
(* it when it is missing (a subprocess, during which the other thread      *)
(* runs), stores the size when its width is positive and sends the         *)
(* slave's command (lines 194-253, 307-343).  The master's size is cached. *)
(***************************************************************************)
RaceKinds == {1, 5, 6, 10, 11}

InitRace ==
    /\ \E n \in 1..MaxSlaves : slave_devices = [i \in 1..n |-> i]
    /\ master_screen_size = OverrideGeom(Master)
    /\ \E k \in [AllSlaves -> {1, 5}] :
         slave_screen_sizes =
             [s \in AllSlaves |->
                IF s \in SlaveSet(slave_devices)
                THEN CachedAtStart(s, k[s]) ELSE NoSize]
    /\ frame = Frame(540, 1200)
    /\ pool = IdlePool(<<Master>> \o slave_devices)
    /\ Started

\* What a step of thread t leaves alone.
RaceFrame ==
    /\ emitted' = <<>>
    /\ UNCHANGED <<main, pool, slave_devices, master_screen_size, drag_start,
                   drag_active, hwnd, running, monitor, listener, frame,
                   press, results>>

\* The record of a step of thread t on slave s.
RaceEvent(op, t, s) ==
    [Quiet(op) EXCEPT !.pt = <<t, s>>, !.handled = TRUE,
                      !.size = master_screen_size]

\* Thread t enters mirror_tap(500, 1000): the master's size comes from the
\* cache, the master's tap is sent and the loop starts (lines 157-194).
RaceBegin(t) ==
    /\ threads[t].pc = "idle"
    /\ threads' = [threads EXCEPT ![t] =
                     [IdleThread EXCEPT !.pc = IF Len(slave_devices) = 0
                                               THEN "done" ELSE "lookup",
                                        !.i = 1]]
    /\ ev' = RaceEvent("begin", t, Master)
    /\ sent' = Append(sent, Cmd(Master, "tap", <<500, 1000>>))
    /\ UNCHANGED <<slave_screen_sizes, queried, raised>>
    /\ RaceFrame

\* Lines 196-198: the lookup of the slave in the cache.
RaceLookup(t) ==
    /\ threads[t].pc = "lookup"
    /\ \E s \in {slave_devices[threads[t].i]} :
         /\ threads' = [threads EXCEPT ![t] =
                          IF slave_screen_sizes[s] # NoSize
                          THEN [@ EXCEPT !.pc = "send",
                                         !.size = slave_screen_sizes[s]]
                          ELSE [@ EXCEPT !.pc = "resolve"]]
         /\ ev' = RaceEvent("lookup", t, s)
    /\ UNCHANGED <<slave_screen_sizes, sent, queried, raised>>
    /\ RaceFrame

\* Line 199: get_screen_info(slave), to which the bridge replies with kind
\* k.  An exception ends the thread's dispatch.
RaceResolve(t, k) ==
    /\ threads[t].pc = "resolve"
    /\ \E s \in {slave_devices[threads[t].i]} :
       \E info \in {GetScreenInfo(BridgeReply(s, k))} :
         /\ threads' = [threads EXCEPT ![t] =
                          IF info.raised
                          THEN [@ EXCEPT !.pc = "raised"]
                          ELSE [@ EXCEPT !.pc = "store", !.size = info.size]]
         /\ ev' = [RaceEvent("resolve", t, s) EXCEPT !.rep = (s :> k)]
         /\ queried' = Append(queried, s)
         /\ raised' = (raised \/ info.raised)
    /\ UNCHANGED <<slave_screen_sizes, sent>>
    /\ RaceFrame

\* Lines 200-201: the size is stored when its width is positive, whatever
\* the cache holds by now.
RaceStore(t) ==
    /\ threads[t].pc = "store"
    /\ \E s \in {slave_devices[threads[t].i]} :
         /\ threads' = [threads EXCEPT ![t] =
                          [@ EXCEPT !.pc = "send",
                                    !.before = slave_screen_sizes[s]]]
         /\ slave_screen_sizes' =
              IF threads[t].size.width > 0
              THEN [slave_screen_sizes EXCEPT ![s] = threads[t].size]
              ELSE slave_screen_sizes
         /\ ev' = RaceEvent("store", t, s)
    /\ UNCHANGED <<sent, queried, raised>>
    /\ RaceFrame

\* Lines 203-253: the slave's command, proportional or raw, and the next
\* slave of the loop.
RaceSend(t) ==
    /\ threads[t].pc = "send"
    /\ \E s \in {slave_devices[threads[t].i]} :
         /\ threads' = [threads EXCEPT ![t] =
                          [@ EXCEPT !.pc = IF threads[t].i = Len(slave_devices)
                                           THEN "done" ELSE "lookup",
                                    !.i = @ + 1]]
         /\ sent' = Append(sent,
                Cmd(s, "tap",
                    IF SlaveResolved(threads[t].size)
                    THEN SlaveTapPoint(threads[t].size, master_screen_size,
                                       500, 1000)
                    ELSE <<500, 1000>>))
         /\ ev' = RaceEvent("send", t, s)
    /\ UNCHANGED <<slave_screen_sizes, queried, raised>>
    /\ RaceFrame

RaceBegins == \E t \in 1..MaxThreads : RaceBegin(t)

RaceLookups == \E t \in 1..MaxThreads : RaceLookup(t)

RaceResolves == \E t \in 1..MaxThreads, k \in RaceKinds : RaceResolve(t, k)

RaceStores == \E t \in 1..MaxThreads : RaceStore(t)

RaceSends == \E t \in 1..MaxThreads : RaceSend(t)

NextRace ==
    \/ RaceBegins
    \/ RaceLookups
    \/ RaceResolves
    \/ RaceStores
    \/ RaceSends

SpecRace == InitRace /\ [][NextRace]_vars

(***************************************************************************)
(* main(): the device list, the operator's choice of the master, and       *)
(* MasterSlaveController.start.  A device is named by a number, the        *)
(* operator's line is a sequence of one-character strings.                 *)
(***************************************************************************)
MaxInput == 2

WifiIds == {1, 2, 3}

\* What get_wifi_devices can return: the ids `adb devices` lists, each
\* once, in some order.
WifiLists ==
    { l \in UNION {[1..n -> WifiIds] : n \in 0..3} :
        \A i, j \in 1..Len(l) : l[i] = l[j] => i = j }

InputAlphabet == {"0", "1", "2", "3", "4", "-", " ", "x"}

InputLines == UNION {[1..n -> InputAlphabet] : n \in 0..MaxInput}

\* str.strip() for the blank.
RECURSIVE LStrip(_)
LStrip(text) ==
    IF text # <<>> /\ Head(text) = " " THEN LStrip(Tail(text)) ELSE text

RECURSIVE RStrip(_)
RStrip(text) ==
    IF text # <<>> /\ text[Len(text)] = " "
    THEN RStrip(SubSeq(text, 1, Len(text) - 1))
    ELSE text

Strip(text) == RStrip(LStrip(text))

DigitValue(c) ==
    CASE c = "0" -> 0 [] c = "1" -> 1 [] c = "2" -> 2 [] c = "3" -> 3
      [] c = "4" -> 4

RECURSIVE DigitsValue(_)
DigitsValue(text) ==
    IF text = <<>> THEN 0
    ELSE 10 * DigitsValue(SubSeq(text, 1, Len(text) - 1))
           + DigitValue(text[Len(text)])

\* int(text) for a stripped text: an optional sign and at least one digit,
\* anything else is a ValueError.
ParseInt(text) ==
    LET signed == text # <<>> /\ Head(text) \in {"-", "+"}
        body == IF signed THEN Tail(text) ELSE text
        digits == body # <<>> /\ \A i \in 1..Len(body) :
                                   body[i] \in {"0", "1", "2", "3", "4"}
    IN  IF ~digits THEN [ok |-> FALSE, value |-> 0]
        ELSE [ok |-> TRUE,
              value |-> IF Head(text) = "-" THEN 0 - DigitsValue(body)
                        ELSE DigitsValue(body)]

\* A selection whose slaves are always the tail of the list.
SelectMasterSlavesTail(wifi_devices, line) ==
    LET user_input == Strip(line)
        parsed == ParseInt(user_input)
        choice == IF user_input = <<>> THEN 0 ELSE parsed.value - 1
        valid == /\ user_input = <<>> \/ parsed.ok
                 /\ choice >= 0
                 /\ choice < Len(wifi_devices)
    IN  [master |-> IF valid THEN wifi_devices[choice + 1]
                    ELSE wifi_devices[1],
         slaves |-> Tail(wifi_devices)]

\* main.py lines 50-64: the master and the slaves for the line the operator
\* typed.  An empty line is the first device; a ValueError of int(), or a
\* choice out of range, ends in the except branch.
SelectMaster(wifi_devices, line) ==
    LET user_input == Strip(line)
        parsed == ParseInt(user_input)
        choice == IF user_input = <<>> THEN 0 ELSE parsed.value - 1
        valid == /\ user_input = <<>> \/ parsed.ok
                 /\ choice >= 0
                 /\ choice < Len(wifi_devices)
        master == wifi_devices[choice + 1]
        NotMaster(d) == d # master
    IN  IF valid
        THEN [master |-> master, slaves |-> SelectSeq(wifi_devices, NotMaster)]
        ELSE [master |-> wifi_devices[1], slaves |-> Tail(wifi_devices)]

\* What the display process does at each step of start_screen_mirror.
VersionOutcomes == {"ok", "missing", "oserror"}

LaunchOutcomes == {"runs", "exits", "raises"}

\* start_screen_mirror (lines 49-124): the version check, the launch
\* without control and, when that process has exited after 2 s, the launch
\* with control.  An OSError of the version check is not caught.
StartScreenMirror(version, first, second) ==
    IF version = "missing"
    THEN [returned |-> "False", display |-> "none", attempts |-> 0]
    ELSE IF version = "oserror"
    THEN [returned |-> "raised", display |-> "none", attempts |-> 0]
    ELSE IF first = "raises"
    THEN [returned |-> "False", display |-> "none", attempts |-> 1]
    ELSE IF first = "runs"
    THEN [returned |-> "True", display |-> "no_control", attempts |-> 1]
    ELSE IF second = "runs"
    THEN [returned |-> "True", display |-> "fallback", attempts |-> 2]
    ELSE [returned |-> "False", display |-> "none", attempts |-> 2]

\* A start that mirrors the input whatever became of the display.
ControllerStartMirrorsAnyway(version, first, second, ctor, pynput) ==
    LET d == StartScreenMirror(version, first, second)
    IN  [returned |-> d.returned, display |-> d.display,
         attempts |-> d.attempts, input_mirror |-> TRUE, running |-> TRUE,
         thread |-> IF pynput THEN "loop" ELSE "adb"]

\* MasterSlaveController.start (lines 913-936).  ctor is whether the
\* constructor of ScrcpyInputMirror returns (its own controller resolves
\* the geometries); pynput is whether the import at line 469 succeeds,
\* otherwise the thread monitors the bridge's events.
ControllerStart(version, first, second, ctor, pynput) ==
    LET d == StartScreenMirror(version, first, second)
        none == [returned |-> d.returned, display |-> d.display,
                 attempts |-> d.attempts, input_mirror |-> FALSE,
                 running |-> FALSE, thread |-> "unstarted"]
    IN  IF d.returned # "True" THEN none
        ELSE IF ~ctor THEN [none EXCEPT !.returned = "raised"]
        ELSE [none EXCEPT !.input_mirror = TRUE, !.running = TRUE,
                          !.thread = IF pynput THEN "loop" ELSE "adb"]

InitMain ==
    /\ \E l \in WifiLists :
         main = [NoMain EXCEPT !.pc = "select", !.wifi_devices = l]
    /\ slave_devices = <<>>
    /\ master_screen_size = ZeroGeom
    /\ slave_screen_sizes = [s \in AllSlaves |-> NoSize]
    /\ drag_start = NoPoint
    /\ drag_active = FALSE
    /\ hwnd = FALSE
    /\ running = FALSE
    /\ monitor = "unstarted"
    /\ listener = "unstarted"
    /\ frame = Frame(540, 1200)
    /\ press = Up
    /\ pool = IdlePool(<<>>)
    /\ threads = NoThreads
    /\ ev = NoEvent
    /\ emitted = <<>>
    /\ sent = <<>>
    /\ queried = <<>>
    /\ results = <<>>
    /\ raised = FALSE

\* What main() leaves alone.
MainFrame ==
    /\ emitted' = <<>>
    /\ UNCHANGED <<threads, pool, slave_devices, master_screen_size,
                   slave_screen_sizes, drag_start, drag_active, hwnd,
                   listener, frame, press, sent, queried, results>>

\* main.py lines 17-67: with fewer than two devices main returns, else the
\* operator's line selects the master.
MainSelect(line) ==
    /\ main.pc = "select"
    /\ IF Len(main.wifi_devices) < 2
       THEN main' = [main EXCEPT !.pc = "exit"]
       ELSE \E sel \in {SelectMaster(main.wifi_devices, line)} :
              main' = [main EXCEPT !.pc = "selected", !.user_input = line,
                                   !.master = sel.master,
                                   !.slaves = sel.slaves]
    /\ ev' = [Quiet("select") EXCEPT !.handled = TRUE]
    /\ UNCHANGED <<running, monitor, raised>>
    /\ MainFrame

\* main.py lines 96-99: the controller is built and started.
MainStart(version, first, second, ctor, pynput) ==
    /\ main.pc = "selected"
    /\ \E r \in {ControllerStart(version, first, second, ctor, pynput)} :
         /\ main' = [main EXCEPT !.pc = "started",
                                 !.display = r.display,
                                 !.attempts = r.attempts,
                                 !.input_mirror = r.input_mirror,
                                 !.returned = r.returned]
         /\ running' = r.running
         /\ monitor' = r.thread
         /\ raised' = (r.returned = "raised")
    /\ ev' = [Quiet("start") EXCEPT
                !.handled = TRUE,
                !.out = [version |-> version, first |-> first,
                         second |-> second, ctor |-> ctor,
                         pynput |-> pynput]]
    /\ MainFrame

MainSelects == \E line \in InputLines : MainSelect(line)

MainStarts ==
    \E version \in VersionOutcomes, first, second \in LaunchOutcomes,
       ctor, pynput \in BOOLEAN :
        MainStart(version, first, second, ctor, pynput)

NextMain ==
    \/ MainSelects
    \/ MainStarts

SpecMain == InitMain /\ [][NextMain]_vars

(***************************************************************************)
(* Properties.  The log variables describe the last operation, so a        *)
(* property of an operation is an invariant over the states it leaves.     *)
(***************************************************************************)
\* The last operation dispatched a tap: mirror_tap was called.
TapDispatch ==
    /\ ev.op \in {"tap", "click"}
    /\ emitted # <<>>
    /\ emitted[1].kind = "tap"

\* The last operation dispatched a tap or a drag.
PointerDispatch ==
    /\ ev.op \in {"tap", "click", "scroll"}
    /\ emitted # <<>>
    /\ emitted[1].kind \in {"tap", "drag"}

\* The commands of the last operation that went to slaves, in order.
SlaveCmds == SelectSeq(sent, LAMBDA c : c.dev # Master)

\* The last operation was a release of the left button.
LeftReleased == ev.op = "click" /\ ev.button = "left" /\ ~ev.pressed

\* The last operation was a release that found the classifier holding a
\* press and mapped to a phone point.
HeldRelease ==
    /\ LeftReleased
    /\ ev.handled
    /\ ev.inwin
    /\ ev.was_active
    /\ ev.was_start # NoPoint
    /\ ev.mapped # NoPoint

InRange(p, g) ==
    /\ 0 <= p[1] /\ p[1] <= g.width - 1
    /\ 0 <= p[2] /\ p[2] <= g.height - 1

\* C1: with master and slave of equal aspect ratio, a tap at (x, y) inside
\* the master's range reaches the slave at (floor(x*sw/mw), floor(y*sh/mh))
\* within a rounding of 1; a tap at (540, 1200) on a 1080x2400 master
\* reaches a 720x1600 slave at exactly (360, 800).
C1_ProportionalTap ==
    (ev.op = "tap" /\ ~raised) =>
        \A i \in 1..Len(SlaveCmds) :
            LET c == SlaveCmds[i]
                m == ev.size
                s == slave_screen_sizes[c.dev]
                x == ev.pt[1]
                y == ev.pt[2]
            IN  (/\ m.width * s.height = m.height * s.width
                 /\ 0 <= x /\ x < m.width
                 /\ 0 <= y /\ y < m.height)
                => /\ c.cmd = "tap"
                   /\ Abs(c.args[1] - ((x * s.width) \div m.width)) <= 1
                   /\ Abs(c.args[2] - ((y * s.height) \div m.height)) <= 1
                   /\ (m = Geom(1080, 2400) /\ s = Geom(720, 1600)
                         /\ ev.pt = <<540, 1200>>)
                      => c.args = <<360, 800>>

C1_Witness ==
    /\ ev.op = "tap"
    /\ ev.pt = <<540, 1200>>
    /\ ev.size = Geom(1080, 2400)
    /\ slave_screen_sizes[1] = Geom(720, 1600)
    /\ Len(sent) >= 2
    /\ sent[2] = Cmd(1, "tap", <<360, 800>>)

\* C2: mirror_tap sends the master exactly one tap at the given point,
\* unmodified and before any slave command, and then exactly one tap to
\* every slave.
C2_MasterThenEverySlave ==
    TapDispatch =>
        /\ Len(sent) = 1 + Len(slave_devices)
        /\ sent[1] = Cmd(Master, "tap", emitted[1].p)
        /\ \A i \in 1..Len(slave_devices) :
              sent[i + 1].dev = slave_devices[i] /\ sent[i + 1].cmd = "tap"

\* The divergence of C2: the only slave's geometry resolution raises after
\* the master's tap, and the slave is sent nothing.
C2_Diverges ==
    /\ TapDispatch
    /\ raised
    /\ slave_devices = <<1>>
    /\ queried = <<1>>
    /\ sent = <<Cmd(Master, "tap", emitted[1].p)>>

\* C3: in the dispatch of a tap or a drag, whatever slaves fail to resolve
\* their geometry (or raise doing so), every other slave still receives
\* its command.
C3_FailureIsolated ==
    PointerDispatch =>
        \A s \in SlaveSet(slave_devices) :
            \/ raised /\ queried # <<>> /\ queried[Len(queried)] = s
            \/ \E i \in 1..Len(sent) : sent[i].dev = s

\* The divergence of C3: the first slave's geometry resolution raises in a
\* tap, and the second slave, whose geometry is cached, is sent nothing.
C3_Diverges ==
    /\ TapDispatch
    /\ raised
    /\ slave_devices = <<1, 2>>
    /\ queried = <<1>>
    /\ slave_screen_sizes[2] = Geom(800, 1280)
    /\ \A i \in 1..Len(sent) : sent[i].dev = Master

\* C4 (as the code has it): the result list of a tap has one entry for
\* each slave that was sent the tap, in order, and none for the master (N
\* entries for N slaves when the dispatch completes), with success false
\* exactly for the slaves whose command failed.
C4_ResultPerSlave ==
    TapDispatch =>
        /\ Len(results) = Len(SlaveCmds)
        /\ \A i \in 1..Len(results) :
              /\ results[i].device = SlaveCmds[i].dev
              /\ results[i].device # Master
              /\ results[i].success = (ev.out[SlaveCmds[i].dev] = "ok")
        /\ ~raised => Len(results) = Len(slave_devices)

C4_Witness ==
    /\ TapDispatch
    /\ Len(slave_devices) = 2
    /\ Len(results) = 2
    /\ results[1].success
    /\ ~results[2].success
    /\ ev.out[2] = "nonzero"

\* C4 as stated: a tap to one master and N slaves yields N+1 result
\* entries, with success false exactly for the targets that failed.
C4_AsStated ==
    TapDispatch =>
        /\ Len(results) = Len(slave_devices) + 1
        /\ \A i \in 1..Len(results) :
              results[i].device # Master
                 => results[i].success = (ev.out[results[i].device] = "ok")

C6_IdleReleaseIsSilent ==
    (LeftReleased /\ ~ev.was_active /\ ev.was_start = NoPoint) =>
        /\ emitted = <<>>
        /\ sent = <<>>
        /\ queried = <<>>
        /\ ~drag_active
        /\ drag_start = NoPoint

C6_Witness ==
    /\ LeftReleased
    /\ ev.handled
    /\ ev.inwin
    /\ ~ev.was_active
    /\ ev.was_start = NoPoint
    /\ ev.press.surface = "bar"
    /\ sent = <<>>

\* C7: after any release of the left button is processed, the classifier
\* is Idle: drag_active is false and drag_start is None.
C7_ReleaseLeavesIdle ==
    (LeftReleased /\ ev.handled) => (~drag_active /\ drag_start = NoPoint)

\* The divergence of C7: the dispatch of the release raises, the classifier
\* still holds the press and the listener has stopped.
C7_Diverges ==
    /\ LeftReleased
    /\ ev.handled
    /\ raised
    /\ drag_active
    /\ drag_start = ev.was_start
    /\ drag_start # NoPoint
    /\ listener = "stopped"

ReleasedInBar ==
    /\ ev.handled
    /\ SurfaceClass(frame, OverrideGeom(Master), ev.pt[1], ev.pt[2]) = "bar"

C10_MappedInRange ==
    /\ (ev.op = "convert" /\ ev.mapped # NoPoint) => InRange(ev.mapped, ev.size)
    /\ (ev.op = "tap" /\ ~raised) =>
          \A i \in 1..Len(SlaveCmds) :
              InRange(SlaveCmds[i].args, slave_screen_sizes[SlaveCmds[i].dev])

\* The divergence of C10: with GetClientRect raising, a click on the right
\* edge of the window maps to x = width.
C10_Diverges ==
    /\ ev.op = "convert"
    /\ ev.mode = "clientrect_fail"
    /\ frame = Frame(540, 1200)
    /\ ev.size = Geom(1080, 2400)
    /\ ev.pt = <<656, 700>>
    /\ ev.mapped[1] = 1080

\* The last operation dispatched a drag: mirror_swipe was called.
SwipeDispatch ==
    /\ ev.op \in {"click", "scroll"}
    /\ emitted # <<>>
    /\ emitted[1].kind = "drag"

\* C11: in a drag dispatched by mirror_swipe (the swipes of on_scroll
\* included), each slave with a resolved geometry is sent, for each end
\* point, the point mirror_tap would send it for the same master point:
\* the proportional mapping clamped into [0, width-1] x [0, height-1].
C11_SwipeEndpointsAsTap ==
    (SwipeDispatch /\ ev.size.width > 0 /\ ev.size.height > 0) =>
        \A i \in 1..Len(SlaveCmds) :
            LET c == SlaveCmds[i]
                s == slave_screen_sizes[c.dev]
                p == emitted[1].p
            IN  s # NoSize =>
                    c.args = SlaveTapPoint(s, ev.size, p[1], p[2])
                             \o SlaveTapPoint(s, ev.size, p[3], p[4])
                             \o <<SwipeDuration>>

\* The divergence of C11: a scroll near the top of a 1080x2400 master ends
\* its swipe above the screen, and the 720x1600 slave is sent the scaled
\* negative y where mirror_tap would send 0.
C11_Diverges ==
    /\ ev.op = "scroll"
    /\ SwipeDispatch
    /\ ev.size = Geom(1080, 2400)
    /\ emitted[1].p = <<40, 438, 40, -162>>
    /\ slave_screen_sizes[1] = Geom(720, 1600)
    /\ Len(sent) >= 2
    /\ sent[2] = Cmd(1, "swipe", <<26, 292, 26, -108, 300>>)
    /\ SlaveTapPoint(Geom(720, 1600), ev.size, 40, -162) = <<26, 0>>

\* C12: when a slave has the master's geometry, a tap at a point inside
\* the screen reaches that slave at the same point, within 1 on each axis.
C12_IdentityWithinOne ==
    (ev.op = "tap" /\ ~raised /\ InRange(ev.pt, ev.size)) =>
        \A i \in 1..Len(SlaveCmds) :
            LET c == SlaveCmds[i]
            IN  slave_screen_sizes[c.dev] = ev.size =>
                    /\ c.cmd = "tap"
                    /\ Abs(c.args[1] - ev.pt[1]) <= 1
                    /\ Abs(c.args[2] - ev.pt[2]) <= 1

\* The rounding case: int(1080 * (39 / 1080)) is 38.
C12_Witness ==
    /\ ev.op = "tap"
    /\ ev.pt = <<39, 78>>
    /\ ev.size = Geom(1080, 2400)
    /\ slave_screen_sizes[1] = Geom(1080, 2400)
    /\ Len(sent) >= 2
    /\ sent[2] = Cmd(1, "tap", <<38, 78>>)

\* The command the last operation sent to slave s, as a sequence of zero or
\* one commands.
CmdsTo(s) == SelectSeq(sent, LAMBDA c : c.dev = s)

\* C13 (as the code has it): the master-to-slave mapping of a tap is
\* independent X and Y scaling with a clamp whatever the two aspect ratios
\* are; it excludes no position, so every slave is sent a point.
C13_SlaveScalingIndependent ==
    (ev.op = "tap" /\ ~raised /\ ev.size.width > 0 /\ ev.size.height > 0) =>
        \A s \in SlaveSet(slave_devices) :
            LET g == slave_screen_sizes[s]
                m == ev.size
            IN  g # NoSize =>
                  CmdsTo(s) =
                    <<Cmd(s, "tap",
                          <<Clamp(PyScale(g.width, ev.pt[1], m.width),
                                  0, g.width - 1),
                            Clamp(PyScale(g.height, ev.pt[2], m.height),
                                  0, g.height - 1)>>)>>

\* A tap near the top of a 1080x2400 master reaches the 800x1280 slave,
\* although the surface transform would exclude it as a letterbox position.
C13_Witness ==
    /\ ev.op = "tap"
    /\ ev.pt = <<39, 78>>
    /\ ev.size = Geom(1080, 2400)
    /\ slave_screen_sizes[2] = Geom(800, 1280)
    /\ AspectMismatch(1080, 2400, 800, 1280)
    /\ ScaleToPhone(Geom(800, 1280), 1080, 2400, 39, 78) = NoPoint
    /\ CmdsTo(2) = <<Cmd(2, "tap", <<28, 41>>)>>

\* C13 as stated: the master-to-slave mapping is the surface-to-master
\* transform applied to the master's screen as the source rectangle:
\* uniform scaling with letterbox exclusion (no point, so no command) when
\* the aspect ratios differ by more than 0.01, independent X/Y scaling
\* otherwise.
C13_AsStated ==
    (ev.op = "tap" /\ ~raised /\ ev.size.width > 0 /\ ev.size.height > 0) =>
        \A s \in SlaveSet(slave_devices) :
            LET g == slave_screen_sizes[s]
                t == ScaleToPhone(g, ev.size.width, ev.size.height,
                                  ev.pt[1], ev.pt[2])
            IN  g # NoSize =>
                  CmdsTo(s) = IF t = NoPoint THEN <<>>
                              ELSE <<Cmd(s, "tap", t)>>

\* The last operation was a geometry resolution that queried the bridge:
\* get_master_screen_size past its cache test, or get_screen_info.
Resolution ==
    /\ ev.op \in {"master_size", "screen_info"}
    /\ queried # <<>>

\* The device it resolved and the reply the bridge gave.
ResolvedDevice == queried[1]
ResolutionReply == BridgeReply(ResolvedDevice, ev.rep[ResolvedDevice])

\* A parsed size with both dimensions positive.
Positive(g) == g # NoSize /\ g.width > 0 /\ g.height > 0

\* C14: when the output of the size query holds an override size,
\* resolution (of the master and of a slave) returns the override size,
\* the physical size being there or not; it returns the physical size
\* when the output holds no override size.
C14_OverridePreferred ==
    Resolution =>
        LET wm == ResolutionReply.wm
        IN  /\ (wm.ok /\ wm.override # NoSize)
                  => (ev.size = wm.override /\ ~raised)
            /\ (wm.ok /\ wm.override = NoSize /\ wm.physical # NoSize)
                  => (ev.size = wm.physical /\ ~raised)
            /\ (wm.ok /\ wm.physical # NoSize /\ wm.physical # wm.override
                   /\ ev.size = wm.physical)
                  => wm.override = NoSize

\* Slave 1 reports override 720x1600 and physical 1080x2400, and resolves
\* to 720x1600.
C14_Witness ==
    /\ ev.op = "screen_info"
    /\ ev.rep = (1 :> 1)
    /\ ResolutionReply.wm.override = Geom(720, 1600)
    /\ ResolutionReply.wm.physical = Geom(1080, 2400)
    /\ ev.size = Geom(720, 1600)
    /\ ~raised

\* C15: a parse with width 0 or height 0 is discarded and resolution falls
\* through to the next strategy: when the output of the size query holds
\* an override or a physical size with both dimensions positive, the first
\* such size (override, then physical) is the one returned.
C15_ZeroParseFallsThrough ==
    Resolution =>
        LET wm == ResolutionReply.wm
        IN  (wm.ok /\ (Positive(wm.override) \/ Positive(wm.physical)))
              => ev.size = IF Positive(wm.override) THEN wm.override
                           ELSE wm.physical

\* The divergence of C15: slave 1 reports an override size of 0x0 beside
\* its physical size 1080x2400, and resolves to 0x0.
C15_Diverges ==
    /\ ev.op = "screen_info"
    /\ ev.rep = (1 :> 9)
    /\ ResolutionReply.wm.override = ZeroGeom
    /\ ResolutionReply.wm.physical = Geom(1080, 2400)
    /\ ev.size = ZeroGeom
    /\ ~raised

\* C16: geometry resolution never raises, whatever the bridge replies, and
\* returns the zero geometry when no strategy finds a size.
C16_ResolutionNeverRaises ==
    Resolution =>
        LET r == ResolutionReply
        IN  /\ ~raised
            /\ ((~r.wm.ok \/ ParseWmSize(r.wm) = NoSize)
                  /\ (~r.dump.ok \/ r.dump.width < 0 \/ r.dump.height < 0))
                 => ev.size = ZeroGeom

\* The divergence of C16: `wm size` fails for slave 1, the dump has both
\* fields, and get_screen_info raises.
C16_Diverges ==
    /\ ev.op = "screen_info"
    /\ ev.rep = (1 :> 6)
    /\ ~ResolutionReply.wm.ok
    /\ ResolutionReply.dump = DumpReply(TRUE, 720, 1600)
    /\ raised

\* C17: when the size query yields no usable size and the dump holds the
\* display width and height, resolution returns that width and height.
C17_DumpStrategySucceeds ==
    Resolution =>
        LET r == ResolutionReply
        IN  ((~r.wm.ok \/ ParseWmSize(r.wm) = NoSize)
               /\ r.dump.ok /\ r.dump.width > 0 /\ r.dump.height > 0)
            => (~raised /\ ev.size = Geom(r.dump.width, r.dump.height))

\* The divergence of C17: `wm size` prints no size for the master, the dump
\* has mDisplayWidth=1080 and mDisplayHeight=2400, and
\* get_master_screen_size returns the zero geometry.
C17_Diverges ==
    /\ ev.op = "master_size"
    /\ ev.rep = (Master :> 12)
    /\ ResolutionReply.wm.ok
    /\ ResolutionReply.dump = DumpReply(TRUE, 1080, 2400)
    /\ queried = <<Master>>
    /\ ev.size = ZeroGeom
    /\ ~raised

\* C18: every geometry in the slave cache, and the master geometry the
\* cache test of get_master_screen_size accepts, has width > 0 and
\* height > 0.
C18_CachedPositive ==
    /\ master_screen_size.width > 0 => master_screen_size.height > 0
    /\ \A s \in AllSlaves :
          slave_screen_sizes[s] # NoSize => Positive(slave_screen_sizes[s])

\* The divergence of C18: in a tap, slave 1 reports a physical size of
\* 720x0, which mirror_tap stores in the cache.
C18_Diverges ==
    /\ ev.op = "tap"
    /\ 1 \in DOMAIN ev.rep
    /\ ev.rep[1] = 10
    /\ queried # <<>>
    /\ queried[Len(queried)] = 1
    /\ slave_screen_sizes[1] = Geom(720, 0)
    /\ CmdsTo(1) = <<Cmd(1, "tap", ev.pt)>>

\* The slaves a dispatch finds without a cached size, in dispatch order,
\* and the slaves the step queried.
UncachedSlaves ==
    SelectSeq(slave_devices, LAMBDA s : slave_screen_sizes[s] = NoSize)
QueriedSlavesNext == SelectSeq(queried', LAMBDA d : d # Master)

\* A step of a dispatch (or of get_master_screen_size) leaves every cached
\* size as it is, does not query the device it belongs to, and scales a
\* tap for a slave by the slave's cached size.
CachedUsed ==
    \A d \in Devices :
        Cached(d) =>
            /\ d = Master => master_screen_size' = master_screen_size
            /\ d # Master => slave_screen_sizes'[d] = slave_screen_sizes[d]
            /\ \A i \in 1..Len(queried') : queried'[i] # d
            /\ (/\ d # Master /\ ev'.op = "tap" /\ ~raised'
                 /\ Positive(slave_screen_sizes[d])
                 /\ ev'.size.width > 0 /\ ev'.size.height > 0)
               => \E i \in 1..Len(sent') :
                     sent'[i] =
                       Cmd(d, "tap",
                           <<Clamp(PyScale(slave_screen_sizes[d].width,
                                           ev'.pt[1], ev'.size.width),
                                   0, slave_screen_sizes[d].width - 1),
                             Clamp(PyScale(slave_screen_sizes[d].height,
                                           ev'.pt[2], ev'.size.height),
                                   0, slave_screen_sizes[d].height - 1)>>)

\* C19 (as the code has it): once a size of width > 0 is cached for a
\* device, every later dispatch uses it and does not query the device
\* again, whatever the device would report by now; a tap or a drag whose
\* master geometry is resolved queries the slaves that have no cached size,
\* in order, up to the first whose resolution raises (all of them when
\* none raises), and a tap or a drag whose master geometry is unresolved
\* queries no slave.
C19_CacheReadThrough ==
    [][ev'.op \in {"master_size", "tap", "swipe", "key"} =>
          /\ CachedUsed
          /\ ev'.op \in {"tap", "swipe"} =>
                IF ev'.size.width > 0 /\ ev'.size.height > 0
                THEN /\ Len(QueriedSlavesNext) <= Len(UncachedSlaves)
                     /\ QueriedSlavesNext
                          = SubSeq(UncachedSlaves, 1, Len(QueriedSlavesNext))
                     /\ ~raised' => QueriedSlavesNext = UncachedSlaves
                     /\ raised' => QueriedSlavesNext # <<>>
                ELSE QueriedSlavesNext = <<>>]_vars

\* Slave 1 is cached at 720x1600 and would now report 1080x2400: the tap
\* does not query it and scales by 720x1600; slave 2 has no cached size, is
\* queried, fails to resolve and stays out of the cache.
C19_Witness ==
    /\ ev.op = "tap"
    /\ slave_devices = <<1, 2>>
    /\ ev.size = Geom(1080, 2400)
    /\ ev.rep[1] = 11
    /\ ev.rep[2] = 5
    /\ slave_screen_sizes[1] = Geom(720, 1600)
    /\ slave_screen_sizes[2] = NoSize
    /\ queried = <<2>>
    /\ sent = <<Cmd(Master, "tap", <<500, 1000>>),
                Cmd(1, "tap", <<333, 666>>),
                Cmd(2, "tap", <<500, 1000>>)>>

\* C19 as stated: once a size of width > 0 is cached for a device, every
\* later dispatch uses it and does not query the device again; a slave
\* with no cached size is queried in each dispatch of a tap or a drag.
C19_AsStated ==
    [][ev'.op \in {"master_size", "tap", "swipe", "key"} =>
          /\ CachedUsed
          /\ ev'.op \in {"tap", "swipe"} =>
                QueriedSlavesNext = UncachedSlaves]_vars

\* C20: mirror_key sends `input keyevent CODE`, the code as given, once to
\* the master and once to every slave, and nothing else.
C20_KeyToAll ==
    ev.op = "key" =>
        /\ sent = <<Cmd(Master, "keyevent", ev.pt)>>
                  \o [i \in 1..Len(slave_devices) |->
                        Cmd(slave_devices[i], "keyevent", ev.pt)]
        /\ queried = <<>>
        /\ ~raised

C20_Witness ==
    /\ ev.op = "key"
    /\ ev.pt = <<"KEYCODE_HOME">>
    /\ slave_devices = <<1, 2>>
    /\ sent = <<Cmd(Master, "keyevent", <<"KEYCODE_HOME">>),
                Cmd(1, "keyevent", <<"KEYCODE_HOME">>),
                Cmd(2, "keyevent", <<"KEYCODE_HOME">>)>>

(***************************************************************************)
(* Text, execute_command and execute_all.                                  *)
(***************************************************************************)
\* The text command of the last operation, for device d.
TextCmd(d) == Cmd(d, "text", <<EscapeText(ev.pt)>>)

\* C21: mirror_text delivers the text command to the master and to every
\* slave, for any slave set including the empty one.
C21_TextToAll ==
    (ev.op = "mirror_text") =>
        /\ \E i \in 1..Len(sent) : sent[i] = TextCmd(Master)
        /\ \A s \in SlaveSet(slave_devices) :
             \E i \in 1..Len(sent) : sent[i] = TextCmd(s)

\* mirror_text with two slaves: both get the text, the master gets nothing.
C21_Diverges ==
    /\ ev.op = "mirror_text"
    /\ ev.pt = <<"a", " ">>
    /\ slave_devices = <<1, 2>>
    /\ sent = <<TextCmd(1), TextCmd(2)>>
    /\ \A i \in 1..Len(sent) : sent[i].dev # Master

\* The last operation typed a text: input_text, input_text_all or
\* mirror_text has returned.
TextOps == {"input_text", "input_text_all", "mirror_text"}

\* The text, character by character: %s for a space, \& for an ampersand.
RECURSIVE Escaped(_)
Escaped(text) ==
    IF text = <<>> THEN <<>>
    ELSE (CASE Head(text) = " " -> <<"%", "s">>
            [] Head(text) = "&" -> <<"\\", "&">>
            [] OTHER -> <<Head(text)>>) \o Escaped(Tail(text))

\* C22: for any text, the text placed in the `input text` command by
\* input_text, input_text_all and mirror_text contains no literal space
\* and every ampersand in it is preceded by a backslash; the three
\* operations place the same escaped string for the same input.
C22_TextEscaped ==
    (ev.op \in TextOps) =>
        \A i \in 1..Len(sent) :
            /\ sent[i].cmd = "text"
            /\ Len(sent[i].args) = 1
            /\ \A j \in 1..Len(sent[i].args[1]) :
                 /\ sent[i].args[1][j] # " "
                 /\ sent[i].args[1][j] = "&" =>
                      (j > 1 /\ sent[i].args[1][j - 1] = "\\")
            /\ sent[i].args[1] = Escaped(ev.pt)

\* input_text_all(' &') on three devices: each gets `input text "%s\&"`.
C22_Witness ==
    /\ ev.op = "input_text_all"
    /\ ev.pt = <<" ", "&">>
    /\ Len(sent) = 3
    /\ \A i \in 1..3 : sent[i].args = << <<"%", "s", "\\", "&">> >>

\* C23: execute_command never raises: a timeout returns success = false
\* with the error 'Command timeout', any other transport failure returns
\* success = false with another error string, and success is true exactly
\* when the bridge command exits with status 0.
C23_CommandNeverRaises ==
    (ev.op = "execute_command") =>
        \A d \in DOMAIN ev.out :
            /\ ~raised
            /\ Len(results) = 1
            /\ results[1].device_id = d
            /\ results[1].success = (ev.out[d] = "ok")
            /\ (ev.out[d] = "timeout") =>
                 results[1].error = "Command timeout"
            /\ (ev.out[d] = "oserror") =>
                 /\ ~results[1].success
                 /\ results[1].error # "Command timeout"

\* execute_command on a device that does not answer within the timeout.
C23_Witness ==
    /\ ev.op = "execute_command"
    /\ ev.out = (1 :> "timeout")
    /\ results = <<[device_id |-> 1, success |-> FALSE,
                    error |-> "Command timeout"]>>
    /\ ~raised

\* What execute_all returns in sequential mode for the outcomes out (lines
\* 78-79).
SequentialResults(out) ==
    [i \in 1..Len(pool.devices) |->
       ExecuteCommand(pool.devices[i], out[pool.devices[i]])]

\* execute_all has returned from its parallel branch.
ParallelReturned ==
    /\ ev.op \in {"execute_all", "input_text_all"}
    /\ ev.handled
    /\ ev.mode = "parallel"

\* C24: for a non-empty device set, execute_all in parallel mode returns
\* exactly one result per device, under every interleaving of the workers
\* and whatever commands fail or time out, and the results are those of
\* sequential mode up to order.  While the workers run, no device has two
\* results.
C24_OneResultPerDevice ==
    /\ (pool.phase = "running") =>
         \A i, j \in 1..Len(results) :
             (results[i].device_id = results[j].device_id) => i = j
    /\ ParallelReturned =>
         /\ Len(results) = Len(pool.devices)
         /\ \A d \in SlaveSet(pool.devices) :
              Cardinality({i \in 1..Len(results) :
                             results[i].device_id = d}) = 1
         /\ \A i \in 1..Len(results) :
              \E j \in 1..Len(pool.devices) :
                  results[i] = SequentialResults(ev.out)[j]

\* Three devices, one timing out and one failing; the workers finish in
\* another order than they were submitted.
C24_Witness ==
    /\ ParallelReturned
    /\ ev.op = "execute_all"
    /\ pool.devices = <<0, 1, 2>>
    /\ ev.out = (0 :> "timeout" @@ 1 :> "ok" @@ 2 :> "nonzero")
    /\ Len(results) = 3
    /\ results[1].device_id = 2
    /\ results[2].device_id = 0
    /\ results[3].device_id = 1
    /\ sent[1].dev = 1

(***************************************************************************)
(* The listener thread, the stop signal and the window.                    *)
(***************************************************************************)
\* The commands that have run to their end when a callback of the listener
\* returns.  on_click and on_scroll call mirror_swipe, mirror_tap and
\* mirror_key themselves (lines 822, 826, 835, 853, 862), and these run each
\* command with subprocess.run, which returns when the command has exited
\* or its timeout has passed (lines 140, 165, 216): all the commands a
\* callback sends are complete when it returns.
CompletedAtReturn ==
    IF ev.op \in {"click", "scroll"} THEN sent ELSE <<>>

\* C25: the callbacks of the listener never block the event-source thread:
\* the dispatch a press, a release or a scroll triggers is handed off, so
\* that no device command has completed, and no result of one is known,
\* when the callback returns.
C25_DispatchHandedOff ==
    (ev.op \in {"click", "scroll"}) =>
        /\ CompletedAtReturn = <<>>
        /\ results = <<>>

\* A release that taps: when on_click returns, the master's command and the
\* slave's have run and the slave's return code has been read.
C25_Diverges ==
    /\ ev.op = "click"
    /\ LeftReleased
    /\ TapDispatch
    /\ slave_devices = <<1>>
    /\ Len(CompletedAtReturn) = 2
    /\ CompletedAtReturn[1].dev = Master
    /\ Len(results) = 1
    /\ results[1].success = (ev.out[1] = "ok")
    /\ ev.out[1] = "nonzero"

\* C27: handling one pointer event always terminates, even when the device
\* bridge never responds: every bridge call on that path, the master
\* geometry query made when the master geometry is not cached included, is
\* bounded by a timeout, so no callback holds the listener thread for ever.
C27_HandlingTerminates ==
    (ev.op \in {"click", "scroll"}) => listener # "blocked"

\* A left press inside the window with no master geometry cached and a
\* bridge that does not answer `wm size`: on_click never returns.
C27_Diverges ==
    /\ ev.op = "click"
    /\ ev.button = "left"
    /\ ev.pressed
    /\ ev.inwin
    /\ master_screen_size = ZeroGeom
    /\ queried = <<Master>>
    /\ sent = <<>>
    /\ listener = "blocked"

\* C26: after stop_mirroring sets the stop signal, the monitoring thread
\* eventually leaves its loop and stops the mouse listener, so that no
\* monitoring thread and no listener is left running, and no pointer event
\* delivered after the signal causes a command to be dispatched.
C26_StopTerminates ==
    /\ []((~running /\ ev.op \in {"click", "scroll"}) => sent = <<>>)
    /\ (~running) ~> (monitor = "done" /\ listener = "stopped")

\* The stop signal is set and the monitoring thread has left its loop, but
\* the listener thread is still held in a callback.
C26_Diverges ==
    /\ ~running
    /\ monitor = "done"
    /\ ev.op = "exit"
    /\ listener = "blocked"

\* C28: mirror_tap and mirror_swipe return normally, with no exception, for
\* every combination of resolved or unresolved master geometry, resolved or
\* unresolved slave geometries, and any number of slaves, zero included.
C28_DispatchReturns ==
    (ev.op \in {"tap", "swipe"}) => ~raised

\* mirror_tap with the master's geometry unresolved and no slave: the
\* master is tapped, then the summary of line 256 reads a results list that
\* was never made.
C28_Diverges ==
    /\ ev.op = "tap"
    /\ ev.size = ZeroGeom
    /\ slave_devices = <<>>
    /\ sent = <<Cmd(Master, "tap", <<500, 1000>>)>>
    /\ results = <<>>
    /\ raised

\* C29: while the mirroring surface window is missing (hwnd is not set) no
\* gesture is dispatched, and the periodic retry re-acquires the window
\* once it exists again: a check of the monitoring loop that finds the
\* window while hwnd is not set sets hwnd, so that later presses and
\* releases inside it are dispatched again.
C29_WindowReacquired ==
    /\ []((~hwnd /\ ev.op \in {"click", "scroll"}) => sent = <<>>)
    /\ [][(~hwnd /\ ev'.op = "monitor" /\ ev'.pt[1]) => hwnd']_vars

\* The window was lost and exists again: the check of the loop finds it,
\* and hwnd stays unset.
C29_Diverges ==
    /\ running
    /\ monitor = "loop"
    /\ ev.op = "monitor"
    /\ ev.pt = <<TRUE>>
    /\ ~hwnd

(***************************************************************************)
(* The letterbox mapping.                                                  *)
(***************************************************************************)
\* The master point at the same fraction of the W x H screen as the screen
\* point (x, y) is of the visible sub-rectangle of frame f, in exact
\* arithmetic, the far edges going to the last pixel.
SameFraction(f, g, x, y) ==
    LET rx == x - f.cx
        ry == y - f.cy
        vw == (f.ch * g.width) \div g.height
        vh == (f.cw * g.height) \div g.width
        lx == (f.cw - vw) \div 2
        ly == (f.ch - vh) \div 2
    IN  IF f.cw * g.height > g.width * f.ch
        THEN <<Min(((rx - lx) * g.width) \div vw, g.width - 1),
               Min((ry * g.height) \div f.ch, g.height - 1)>>
        ELSE <<Min((rx * g.width) \div f.cw, g.width - 1),
               Min(((ry - ly) * g.height) \div vh, g.height - 1)>>

\* C30: in letterbox mode (the aspect ratios differ by more than 0.01) a
\* surface point at fraction (fx, fy) of the visible sub-rectangle maps to
\* the master point at the same fraction (fx*W, fy*H) within rounding: the
\* far corner of the sub-rectangle maps to (W-1, H-1) and its centre to the
\* centre of the master screen.
C30_FractionPreserved ==
    (/\ ev.op = "convert"
     /\ ev.mode = "ok"
     /\ Abs(frame.cw * ev.size.height - ev.size.width * frame.ch) * 100
           > frame.ch * ev.size.height
     /\ SurfaceClass(frame, ev.size, ev.pt[1], ev.pt[2]) = "content")
    => /\ ev.mapped # NoPoint
       /\ Abs(ev.mapped[1]
                - SameFraction(frame, ev.size, ev.pt[1], ev.pt[2])[1]) <= 1
       /\ Abs(ev.mapped[2]
                - SameFraction(frame, ev.size, ev.pt[1], ev.pt[2])[2]) <= 1

\* An 800x1200 client area showing a 1080x2400 master in its middle 540
\* columns: the point on the right edge of the visible sub-rectangle, half
\* way down, maps to (729, 810) and not to (1079, 1200).
C30_Diverges ==
    /\ ev.op = "convert"
    /\ ev.mode = "ok"
    /\ frame = Frame(800, 1200)
    /\ ev.size = Geom(1080, 2400)
    /\ ev.pt = <<778, 731>>
    /\ SurfaceClass(frame, ev.size, 778, 731) = "content"
    /\ SameFraction(frame, ev.size, 778, 731) = <<1079, 1200>>
    /\ ev.mapped = <<729, 810>>

(***************************************************************************)
(* Degenerate geometries and the master's own command.                     *)
(***************************************************************************)
\* The size the last dispatch had for slave s: the cached size, or the one
\* the bridge's reply resolved to.
UsedSize(s) ==
    IF slave_screen_sizes[s] # NoSize THEN slave_screen_sizes[s]
    ELSE GetScreenInfo(BridgeReply(s, ev.rep[s])).size

\* The coordinates of the last dispatch as they were given.
RawArgs == IF ev.op = "swipe" THEN ev.pt \o <<SwipeDuration>> ELSE ev.pt

\* C31: no proportional transform is computed with a zero dimension.  A
\* tap or a swipe whose master size or slave size has a width or a height
\* of 0 sends that slave the coordinates as given, and a conversion returns
\* a point only when the master's width and height and the client area's
\* (or, in the fallback, the window's) width and height are all positive.
C31_NoZeroDimension ==
    /\ (ev.op \in {"tap", "swipe"}) =>
         \A i \in 1..Len(sent) :
             (sent[i].dev # Master
                /\ (~Positive(ev.size) \/ ~Positive(UsedSize(sent[i].dev))))
             => sent[i].args = RawArgs
    /\ (ev.op = "convert" /\ ev.mapped # NoPoint) =>
         /\ Positive(ev.size)
         /\ (ev.mode \in {"ok", "c2s_fail"}) => (frame.cw > 0 /\ frame.ch > 0)
         /\ (ev.mode = "clientrect_fail") =>
              (frame.right - frame.left > 0 /\ frame.bottom - frame.top > 0)

\* A tap on a resolved master with a slave whose cached size has height 0
\* and a slave that is resolved: the first gets the point as given, the
\* second the scaled point.
C31_Witness ==
    /\ ev.op = "tap"
    /\ ev.size = Geom(1080, 2400)
    /\ slave_devices = <<1, 2>>
    /\ slave_screen_sizes[1] = Geom(720, 0)
    /\ slave_screen_sizes[2] = Geom(800, 1280)
    /\ Len(sent) = 3
    /\ sent[2] = Cmd(1, "tap", <<500, 1000>>)
    /\ sent[3] = Cmd(2, "tap", <<370, 533>>)

\* The coordinates the last dispatch owes slave s when both sizes are
\* positive: the proportional point of a tap, the two of a swipe.
ScaledArgs(s) ==
    IF ev.op = "swipe"
    THEN SlaveSwipePoint(UsedSize(s), ev.size, ev.pt[1], ev.pt[2])
           \o SlaveSwipePoint(UsedSize(s), ev.size, ev.pt[3], ev.pt[4])
           \o <<SwipeDuration>>
    ELSE SlaveTapPoint(UsedSize(s), ev.size, ev.pt[1], ev.pt[2])

\* C32: when the master geometry is resolved, a slave whose geometry is
\* unresolved still receives exactly one command with the master's
\* coordinates unscaled, and every slave with a resolved geometry receives
\* exactly one with the proportional coordinates; when the master geometry
\* is unresolved, the master and every slave receive the raw coordinates.
C32_FallbackPerSlave ==
    (ev.op \in {"tap", "swipe"}) =>
        /\ \E i \in 1..Len(sent) :
             sent[i].dev = Master /\ sent[i].args = RawArgs
        /\ \A s \in SlaveSet(slave_devices) :
             /\ Len(CmdsTo(s)) = 1
             /\ CmdsTo(s)[1].args =
                  IF Positive(ev.size) /\ Positive(UsedSize(s))
                  THEN ScaledArgs(s) ELSE RawArgs

\* A tap on a resolved master with one slave that is not cached, whose
\* `wm size` fails and whose dump has both fields: the resolution raises
\* and the slave receives nothing.
C32_Diverges ==
    /\ ev.op = "tap"
    /\ Positive(ev.size)
    /\ slave_devices = <<1>>
    /\ ev.rep[1] = 6
    /\ queried = <<1>>
    /\ slave_screen_sizes[1] = NoSize
    /\ raised
    /\ sent = <<Cmd(Master, "tap", <<500, 1000>>)>>

\* The arguments the last dispatch owes slave s.
OwedArgs(s) ==
    IF ev.op = "key" THEN ev.pt
    ELSE IF Positive(ev.size) /\ Positive(UsedSize(s)) THEN ScaledArgs(s)
    ELSE RawArgs

\* C33: when the master's own command fails during a tap, drag or key
\* dispatch (timeout, launch failure or nonzero exit), every slave still
\* receives exactly the one command it is owed, with the same arguments as
\* when the master's command succeeds.
C33_MasterFailureIsolated ==
    (ev.op \in {"tap", "swipe", "key"} /\ ev.out[Master] # "ok") =>
        /\ sent[1].dev = Master
        /\ Len(sent) = 1 + Len(slave_devices)
        /\ \A i \in 1..Len(slave_devices) :
             /\ sent[i + 1].dev = slave_devices[i]
             /\ sent[i + 1].args = OwedArgs(slave_devices[i])
        /\ (ev.op = "tap") =>
             /\ Len(results) = Len(slave_devices)
             /\ \A i \in 1..Len(results) : results[i].success

\* A tap whose master command raised, on a resolved master with two
\* resolved slaves: both slaves received their proportional points.
C33_Witness ==
    /\ ev.op = "tap"
    /\ ev.out[Master] = "raises"
    /\ ev.size = Geom(1080, 2400)
    /\ slave_devices = <<1, 2>>
    /\ Positive(UsedSize(1)) /\ Positive(UsedSize(2))
    /\ Len(sent) = 3
    /\ sent[2].args = SlaveTapPoint(UsedSize(1), ev.size, 500, 1000)
    /\ sent[3].args = SlaveTapPoint(UsedSize(2), ev.size, 500, 1000)
    /\ Len(results) = 2

\* C34: when two dispatch operations run concurrently and both resolve the
\* same uncached slave, a cache entry that holds a valid geometry (both
\* dimensions positive) is never replaced by a different or an invalid
\* value, under every interleaving.
C34_ValidEntryKept ==
    [][\A s \in AllSlaves :
         Positive(slave_screen_sizes[s]) =>
             slave_screen_sizes'[s] = slave_screen_sizes[s]]_vars

\* Both threads missed slave 1 in the cache and resolved it; the first
\* stored 720x1600, and the second has just stored 720x0 over it.
C34_Diverges ==
    /\ ev.op = "store"
    /\ \E t \in 1..MaxThreads :
         /\ ev.pt = <<t, 1>>
         /\ threads[t].pc = "send"
         /\ threads[t].before = Geom(720, 1600)
         /\ threads[t].size = Geom(720, 0)
    /\ \A t \in 1..MaxThreads : threads[t].pc \in {"send", "done"}
    /\ queried = <<1, 1>>
    /\ slave_screen_sizes[1] = Geom(720, 0)

\* C35: a left press mapped inside the surface followed by a left release
\* outside the surface window cancels the gesture: the release emits no
\* Tap and no Drag, sends no command, and leaves the classifier idle.
C35_ReleaseOutsideCancels ==
    (/\ LeftReleased
     /\ ev.handled
     /\ ~ev.inwin
     /\ ev.was_active
     /\ ev.was_start # NoPoint) =>
        /\ emitted = <<>>
        /\ sent = <<>>
        /\ ~raised
        /\ ~drag_active
        /\ drag_start = NoPoint

\* A press was mapped to a phone point and the button was released at
\* (50, 50), outside the window: nothing was sent, the classifier is idle.
C35_Witness ==
    /\ LeftReleased
    /\ ev.pt = <<50, 50>>
    /\ ev.handled
    /\ ~ev.inwin
    /\ ev.was_active
    /\ ev.was_start # NoPoint
    /\ sent = <<>>
    /\ ~drag_active
    /\ drag_start = NoPoint

\* C36: the master and slave geometry resolvers are equivalent: for the
\* same bridge replies to the size query and to the dump query,
\* get_master_screen_size (called with nothing cached) and get_screen_info
\* return the same width and height, or both report unresolved (0x0).
C36_ResolversAgree ==
    (ev.op = "master_size" /\ queried = <<Master>>) =>
        /\ ~GetScreenInfo(BridgeReply(Master, ev.rep[Master])).raised
        /\ GetScreenInfo(BridgeReply(Master, ev.rep[Master])).size = ev.size

\* get_master_screen_size answered 0x0 to a failed size query followed by
\* a dump with both fields, the replies for which get_screen_info raises.
C36_Diverges ==
    /\ ev.op = "master_size"
    /\ queried = <<Master>>
    /\ ev.rep[Master] = 6
    /\ ev.size = ZeroGeom
    /\ ~raised
    /\ GetScreenInfo(BridgeReply(Master, 6)).raised

\* C37: the bulk operations execute_all and install_app_all, called when
\* the device set is empty, return an empty result list without raising.
C37_EmptyBulkReturnsEmpty ==
    (/\ ev.op \in {"execute_all", "install_app_all"}
     /\ ev.handled
     /\ Len(pool.devices) = 0) =>
        /\ ~raised
        /\ results = <<>>
        /\ sent = <<>>

\* install_app_all was called on a controller without devices and raised.
C37_Diverges ==
    /\ ev.op = "install_app_all"
    /\ ev.handled
    /\ pool.devices = <<>>
    /\ pool.phase = "idle"
    /\ sent = <<>>
    /\ raised

\* The devices of a list.
Members(l) == { l[i] : i \in 1..Len(l) }

\* C38: after master selection in main, for every operator input (valid
\* number, empty, out of range, non-numeric) over a list of at least two
\* distinct devices, the master is exactly one device of the list, the
\* master is not in the slave set, and the slave set is exactly the
\* remaining devices.
C38_MasterAndSlavesPartition ==
    (main.pc \in {"selected", "started"}) =>
        /\ Len(main.wifi_devices) >= 2
        /\ main.master \in Members(main.wifi_devices)
        /\ main.master \notin Members(main.slaves)
        /\ Members(main.slaves) = Members(main.wifi_devices) \ {main.master}
        /\ Len(main.slaves) = Len(main.wifi_devices) - 1

\* The operator typed " 2" over the list <<3, 1, 2>>: device 1 is the
\* master and 3 and 2 are the slaves.
C38_Witness ==
    /\ main.pc = "selected"
    /\ main.wifi_devices = <<3, 1, 2>>
    /\ main.user_input = <<" ", "2">>
    /\ main.master = 1
    /\ main.slaves = <<3, 2>>

\* C39: MasterSlaveController.start starts input mirroring only after the
\* display process has started: when both start attempts of the display
\* process fail, start returns False and no input mirror, listener or
\* thread is created; and whenever one exists, a display process runs.
C39_MirrorOnlyAfterDisplay ==
    /\ (/\ main.pc = "started"
        /\ ev.out.version = "ok"
        /\ ev.out.first = "exits"
        /\ ev.out.second # "runs") =>
           /\ main.returned = "False"
           /\ main.attempts = 2
           /\ ~main.input_mirror
           /\ ~running
           /\ monitor = "unstarted"
           /\ listener = "unstarted"
    /\ (main.pc # "none" /\ (main.input_mirror \/ running
                               \/ monitor # "unstarted")) =>
           /\ main.display # "none"
           /\ main.returned = "True"

\* Both launches of the display process exited within two seconds while
\* the input library was there: start returned False without a thread.
C39_Witness ==
    /\ main.pc = "started"
    /\ ev.out.version = "ok"
    /\ ev.out.first = "exits"
    /\ ev.out.second = "exits"
    /\ ev.out.ctor
    /\ ev.out.pynput
    /\ main.returned = "False"
    /\ main.attempts = 2
    /\ ~main.input_mirror
    /\ monitor = "unstarted"

=============================================================================
